---------------------------- MODULE Spec2Model ----------------------------
(***************************************************************************)
(* Custom Promotional Scheme: the submission hook                          *)
(* (doctype/custom_promotional_scheme/custom_promotional_scheme.py) and    *)
(* the scope extraction it shares with the report                          *)
(* (report/custom_promotional_scheme_report/...py).                        *)
(*                                                                         *)
(* Conventions.  Python None is NoneV for strings and <<>> for numbers; a  *)
(* present number n is <<n>>.  A rate is an exact fraction [num, den] in   *)
(* lowest terms (the source computes in binary floating point; the model   *)
(* computes the same expressions over the rationals).  A child-table row   *)
(* is either a plain string or an ordered key/value mapping.               *)
(***************************************************************************)
EXTENDS Integers, Sequences, FiniteSets

VARIABLES
    doc,             \* the invoice handed to the hook: header fields and items
    submitted,       \* the invoice as it was when the operation was entered
    store,           \* Custom Promotional Scheme documents, in listing order
    unloadable,      \* names for which frappe.get_doc raises
    today,           \* getdate(nowdate())
    queue,           \* active_scheme_names still to be visited by the for loop
    scheme_name,     \* the loop variable of the hook
    matching_items,  \* the hook's local list: positions in doc.items
    msgs,            \* frappe.msgprint calls made so far
    pc,              \* where the running operation stands
    form,            \* the scheme document under validate / scope extraction
    outcome,         \* result of validate, of scope extraction or of the report
    ledger,          \* the invoices in the database, drafts included
    filters,         \* the filters the report is run with
    totals_map,      \* the report's grouped totals for the scheme last visited
    result_rows,     \* the rows the report has built so far
    cursor           \* iterations done by the for loop of add_free_items_to_invoice

vars == <<doc, submitted, store, unloadable, today, queue, scheme_name,
          matching_items, msgs, pc, form, outcome,
          ledger, filters, totals_map, result_rows, cursor>>

----------------------------------------------------------------------------
(* Bounds of the model                                                     *)

MaxItems == 2
MaxSchemes == 2
MaxDate == 3
MaxCalls == 2

----------------------------------------------------------------------------
(* Values                                                                  *)

NoneV == "None"

Truthy(v) == v # NoneV /\ v # ""

Some(n) == <<n>>

\* `x or 0` followed by flt(): a missing number counts as 0
OrZero(x) == IF x = <<>> THEN 0 ELSE x[1]

\* Python truthiness of an optional number: None and 0 are falsy
NumTruthy(x) == x # <<>> /\ x[1] # 0

Abs(i) == IF i < 0 THEN 0 - i ELSE i

RECURSIVE Gcd(_, _)
Gcd(a, b) == IF b = 0 THEN a ELSE Gcd(b, a % b)

Rat(n, d) ==
    LET g == Gcd(Abs(n), Abs(d))
        s == IF d < 0 THEN 0 - 1 ELSE 1
    IN  IF n = 0 THEN [num |-> 0, den |-> 1]
        ELSE [num |-> s * (n \div g), den |-> s * (d \div g)]

RatOf(i) == Rat(i, 1)
RatMul(a, b) == Rat(a.num * b.num, a.den * b.den)
RatSub(a, b) == Rat(a.num * b.den - b.num * a.den, a.den * b.den)

\* flt(getattr(it, "rate", 0)): a missing rate is 0.0
FltRate(r) == IF r = <<>> THEN RatOf(0) ELSE r[1]

Range(s) == {s[i] : i \in DOMAIN s}

MinOf(S) == CHOOSE i \in S : \A j \in S : i <= j

RECURSIVE SumSeq(_)
SumSeq(s) == IF s = <<>> THEN 0 ELSE Head(s) + SumSeq(Tail(s))

RECURSIVE SelectIdx(_, _, _)
\* positions i of items (ascending from i) with items[i].item_code in codes
SelectIdx(items, codes, i) ==
    IF i > Len(items) THEN <<>>
    ELSE IF items[i].item_code \in codes
         THEN <<i>> \o SelectIdx(items, codes, i + 1)
         ELSE SelectIdx(items, codes, i + 1)

----------------------------------------------------------------------------
(* Child rows and scope extraction                                         *)

StrRow(v) == [isstr |-> TRUE, val |-> v, kv |-> <<>>]
DictRow(kv) == [isstr |-> FALSE, val |-> NoneV, kv |-> kv]
KeyRow(k, v) == DictRow(<< <<"name", "row">>, <<k, v>> >>)

MetaKeys == {"idx", "name", "parent", "parentfield", "parenttype", "doctype"}

HasKey(kv, k) == \E i \in DOMAIN kv : kv[i][1] = k
DictGet(kv, k) ==
    IF HasKey(kv, k) THEN kv[CHOOSE i \in DOMAIN kv : kv[i][1] = k][2] ELSE NoneV

\* one dict-like row: the first candidate key holding a truthy value, else the
\* first truthy value under a non-meta key, else nothing
RowValues(row, possible_keys) ==
    LET hits == {i \in DOMAIN possible_keys :
                    HasKey(row.kv, possible_keys[i])
                    /\ Truthy(DictGet(row.kv, possible_keys[i]))}
        fall == {i \in DOMAIN row.kv :
                    row.kv[i][1] \notin MetaKeys /\ Truthy(row.kv[i][2])}
    IN  IF hits # {} THEN {DictGet(row.kv, possible_keys[MinOf(hits)])}
        ELSE IF fall # {} THEN {row.kv[MinOf(fall)][2]}
        ELSE {}

_extract_values_from_child_rows(rows, possible_keys) ==
    IF rows # <<>> /\ rows[1].isstr
    THEN {rows[i].val : i \in DOMAIN rows}
    ELSE UNION {RowValues(rows[i], possible_keys) : i \in DOMAIN rows}

report_extract_values_from_child_rows(rows, possible_keys) ==
    IF rows # <<>> /\ rows[1].isstr
    THEN {rows[i].val : i \in {j \in DOMAIN rows : Truthy(rows[j].val)}}
    ELSE UNION {RowValues(rows[i], possible_keys) : i \in DOMAIN rows}

\* the Item catalog: item code -> item group
ItemCatalog ==
    [c \in {"ITEM-A", "ITEM-B", "ITEM-C"} |->
        IF c = "ITEM-C" THEN "GRP-2" ELSE "GRP-1"]

\* frappe.get_all("Item", filters={"item_group": ["in", groups]}, pluck="name")
ItemsInGroups(groups) == {c \in DOMAIN ItemCatalog : ItemCatalog[c] \in groups}

_extract_item_codes_from_scheme(scheme_doc) ==
    LET item_code_vals == _extract_values_from_child_rows(
                              scheme_doc.promotional_scheme_on_item_code,
                              <<"item_code", "item">>)
        item_group_vals == _extract_values_from_child_rows(
                              scheme_doc.promotional_scheme_on_item_group,
                              <<"item_group", "group">>)
    IN  item_code_vals \cup
        (IF item_group_vals # {} THEN ItemsInGroups(item_group_vals) ELSE {})

report_extract_item_codes_from_scheme(scheme_doc) ==
    LET item_code_vals == report_extract_values_from_child_rows(
                              scheme_doc.promotional_scheme_on_item_code,
                              <<"item_code", "item">>)
        item_group_vals == report_extract_values_from_child_rows(
                              scheme_doc.promotional_scheme_on_item_group,
                              <<"item_group", "group">>)
        item_codes == item_code_vals \cup
            (IF item_group_vals # {} THEN ItemsInGroups(item_group_vals) ELSE {})
    IN  {i \in item_codes : Truthy(i)}

_extract_party_values_from_scheme(scheme_doc) ==
    [customers |-> _extract_values_from_child_rows(
                       scheme_doc.customer, <<"customer", "item", "value">>),
     customer_groups |-> _extract_values_from_child_rows(
                       scheme_doc.customer_group,
                       <<"customer_group", "item", "value", "group">>),
     territories |-> _extract_values_from_child_rows(
                       scheme_doc.territory, <<"territory", "item", "value">>),
     suppliers |-> _extract_values_from_child_rows(
                       scheme_doc.supplier, <<"supplier", "item", "value">>),
     supplier_groups |-> _extract_values_from_child_rows(
                       scheme_doc.supplier_group,
                       <<"supplier_group", "item", "value", "group">>)]

----------------------------------------------------------------------------
(* Party gate                                                              *)

\* one declared dimension fails when the invoice's value is absent or outside
DimFails(declared, value) ==
    declared # {} /\ (~Truthy(value) \/ value \notin declared)

\* variant: an empty declared set matches nothing (no wildcard)
party_matches_without_wildcard(d, parties_dict) ==
    IF d.doctype = "Sales Invoice"
    THEN /\ d.customer \in parties_dict.customers
         /\ d.customer_group \in parties_dict.customer_groups
         /\ d.territory \in parties_dict.territories
    ELSE /\ d.supplier \in parties_dict.suppliers
         /\ d.supplier_group \in parties_dict.supplier_groups

\* variant: the invoice need match only one of the declared dimensions
party_matches_any_dimension(d, parties_dict) ==
    LET has_any_party_limit ==
            \E k \in DOMAIN parties_dict : parties_dict[k] # {}
    IN  IF ~has_any_party_limit THEN TRUE
        ELSE IF d.doctype = "Sales Invoice"
        THEN \/ d.customer \in parties_dict.customers
             \/ d.customer_group \in parties_dict.customer_groups
             \/ d.territory \in parties_dict.territories
        ELSE \/ d.supplier \in parties_dict.suppliers
             \/ d.supplier_group \in parties_dict.supplier_groups

_invoice_party_matches(d, parties_dict) ==
    LET has_any_party_limit ==
            \E k \in DOMAIN parties_dict : parties_dict[k] # {}
    IN  IF ~has_any_party_limit THEN TRUE
        ELSE IF d.doctype = "Sales Invoice"
                /\ (\/ DimFails(parties_dict.customers, d.customer)
                    \/ DimFails(parties_dict.customer_groups, d.customer_group)
                    \/ DimFails(parties_dict.territories, d.territory))
             THEN FALSE
        ELSE IF d.doctype = "Purchase Invoice"
                /\ (\/ DimFails(parties_dict.suppliers, d.supplier)
                    \/ DimFails(parties_dict.supplier_groups, d.supplier_group))
             THEN FALSE
        ELSE TRUE

----------------------------------------------------------------------------
(* Effect applicator                                                       *)

\* variant: the percentage is subtracted as an amount
discounted_row_flat(it, discount_pct, name) ==
    [it EXCEPT !.rate = Some(RatSub(FltRate(it.rate), RatOf(discount_pct))),
               !.discount_percentage = Some(discount_pct),
               !.promotional_scheme_applied = name]

\* one matched row after the discount: rate, discount_percentage and marker
DiscountedRow(it, discount_pct, name) ==
    LET original_rate == FltRate(it.rate)
        discount_value == RatMul(original_rate, Rat(discount_pct, 100))
    IN  [it EXCEPT !.rate = Some(RatSub(original_rate, discount_value)),
                   !.discount_percentage = Some(discount_pct),
                   !.promotional_scheme_applied = name]

\* variant: every row of the invoice is discounted, matched or not
apply_discount_to_all_items(d, matching, discount_pct, name) ==
    [d EXCEPT !.items =
        [i \in DOMAIN d.items |-> DiscountedRow(d.items[i], discount_pct, name)]]

apply_discount_to_invoice(d, matching, discount_pct, name) ==
    [d EXCEPT !.items =
        [i \in DOMAIN d.items |->
            IF i \in Range(matching)
            THEN DiscountedRow(d.items[i], discount_pct, name)
            ELSE d.items[i]]]

\* the new child row dict of add_free_items_to_invoice
FreeRow(it, free_qty, name) ==
    [item_code |-> it.item_code,
     item_name |-> it.item_name,
     qty |-> Some(free_qty),
     rate |-> Some(RatOf(0)),
     amount |-> Some(0),
     base_rate |-> Some(0),
     base_amount |-> Some(0),
     base_net_amount |-> <<>>,
     discount_percentage |-> <<>>,
     is_free_item |-> 1,
     promotional_scheme_applied |-> name]

\* variant: one free row per scheme, for the first matched row only
add_free_items_once_per_scheme(d, matching, free_qty, name) ==
    [d EXCEPT !.items =
        IF matching = <<>> THEN d.items
        ELSE Append(d.items, FreeRow(d.items[matching[1]], free_qty, name))]

add_free_items_to_invoice(d, matching, free_qty, name) ==
    [d EXCEPT !.items =
        d.items \o [j \in DOMAIN matching |->
                        FreeRow(d.items[matching[j]], free_qty, name)]]

DiscountMsg(name, discount_pct) ==
    [kind |-> "discount", scheme |-> name, value |-> discount_pct]
FreeMsg(name, free_qty) ==
    [kind |-> "free", scheme |-> name, value |-> free_qty]

----------------------------------------------------------------------------
(* The submission hook                                                     *)

PartySide(d) == IF d.doctype = "Sales Invoice" THEN "Selling" ELSE "Buying"

\* CustomPromotionalScheme.get_active_schemes_for_party: names, in listing
\* order, of the stored schemes of that side whose window contains today (a
\* missing date never satisfies the comparison)
get_active_schemes_for_party(st, party_type, day) ==
    LET keep(s) == /\ s.select_the_party = party_type
                   /\ s.valid_from # <<>> /\ s.valid_from[1] <= day
                   /\ s.valid_to # <<>> /\ s.valid_to[1] >= day
        kept == SelectSeq(st, keep)
    IN  [i \in DOMAIN kept |-> kept[i].name]

\* frappe.get_doc("Custom Promotional Scheme", name)
GetDoc(st, name) == st[CHOOSE i \in DOMAIN st : st[i].name = name]

\* variant: an empty resolved set matches no row
matching_items_empty_matches_nothing(d, scheme_doc) ==
    SelectIdx(d.items, _extract_item_codes_from_scheme(scheme_doc), 1)

\* step 2 of the loop body: the rows of the invoice the scheme concerns
MatchingItems(d, scheme_doc) ==
    LET item_codes == _extract_item_codes_from_scheme(scheme_doc)
    IN  IF item_codes # {}
        THEN SelectIdx(d.items, item_codes, 1)
        ELSE [i \in DOMAIN d.items |-> i]

\* sum(getattr(it, "base_net_amount", 0) or 0 for it in matching_items)
TotalWithoutGst(d, matching) ==
    SumSeq([j \in DOMAIN matching |-> OrZero(d.items[matching[j]].base_net_amount)])

\* sum(getattr(it, "qty", 0) or 0 for it in matching_items)
TotalQty(d, matching) ==
    SumSeq([j \in DOMAIN matching |-> OrZero(d.items[matching[j]].qty)])

\* variant: the threshold is compared strictly
amount_qualifies_strict(d, matching, scheme_doc) ==
    /\ TotalWithoutGst(d, matching) > OrZero(scheme_doc.minimum_amount)
    /\ OrZero(scheme_doc.discount_percentage) > 0

\* step 3 of the loop body: does the amount rule grant the discount
AmountQualifies(d, matching, scheme_doc) ==
    /\ TotalWithoutGst(d, matching) >= OrZero(scheme_doc.minimum_amount)
    /\ OrZero(scheme_doc.discount_percentage) > 0

\* step 3 of the loop body: does the quantity rule grant free goods
QuantityQualifies(d, matching, scheme_doc) ==
    /\ TotalQty(d, matching) >= OrZero(scheme_doc.minimum_quantity)
    /\ OrZero(scheme_doc.free_quantity) > 0

\* variant: a scheme that fails to load ends the loop
failed_load_ends_loop(q) == <<>>

\* `except Exception: continue`: the loop goes on with the next name
AfterFailedLoad(q) == Tail(q)

HookState ==
    UNCHANGED <<submitted, store, unloadable, today, form, outcome,
                ledger, filters, totals_map, result_rows>>

\* the hook's steps outside add_free_items_to_invoice
HookFrame == HookState /\ UNCHANGED cursor

\* entry of apply_promotional_schemes up to the start of the for loop
HookEnter ==
    /\ pc = "submit"
    /\ LET active == IF doc.doctype \in {"Sales Invoice", "Purchase Invoice"}
                     THEN get_active_schemes_for_party(store, PartySide(doc), today)
                     ELSE <<>>
       IN  /\ queue' = active
           /\ pc' = IF active = <<>> THEN "done" ELSE "loop"
    /\ UNCHANGED <<doc, scheme_name, matching_items, msgs>>
    /\ HookFrame

\* one pass of the loop body up to `if not matching_items: continue`
VisitScheme ==
    /\ pc = "loop"
    /\ queue # <<>>
    /\ LET name == Head(queue)
           loaded == name \notin unloadable
           scheme_doc == GetDoc(store, name)
           party_ok == loaded /\ _invoice_party_matches(
                           doc, _extract_party_values_from_scheme(scheme_doc))
           matched == MatchingItems(doc, scheme_doc)
       IN  /\ scheme_name' = name
           /\ matching_items' = IF party_ok THEN matched ELSE matching_items
           /\ IF party_ok /\ matched # <<>>
              THEN pc' = "matched" /\ queue' = queue
              ELSE /\ pc' = "loop"
                   /\ queue' = IF loaded THEN Tail(queue) ELSE AfterFailedLoad(queue)
    /\ UNCHANGED <<doc, msgs>>
    /\ HookFrame

\* the rest of the loop body: the qualification rule and its effect
EvaluateScheme ==
    /\ pc = "matched"
    /\ LET scheme_doc == GetDoc(store, scheme_name)
           kind == scheme_doc.type_of_promo_validation
           discount_pct == OrZero(scheme_doc.discount_percentage)
           free_qty == OrZero(scheme_doc.free_quantity)
       IN  IF kind = "Based on Minimum Amount"
              /\ AmountQualifies(doc, matching_items, scheme_doc)
           THEN /\ doc' = apply_discount_to_invoice(
                              doc, matching_items, discount_pct, scheme_doc.name)
                /\ msgs' = Append(msgs, DiscountMsg(scheme_doc.name, discount_pct))
           ELSE IF kind = "Based on Minimum Quantity"
                   /\ QuantityQualifies(doc, matching_items, scheme_doc)
           THEN /\ doc' = add_free_items_to_invoice(
                              doc, matching_items, free_qty, scheme_doc.name)
                /\ msgs' = Append(msgs, FreeMsg(scheme_doc.name, free_qty))
           ELSE UNCHANGED <<doc, msgs>>
    /\ pc' = "loop"
    /\ queue' = Tail(queue)
    /\ UNCHANGED <<scheme_name, matching_items>>
    /\ HookFrame

\* the for loop is exhausted: the hook returns
HookReturn ==
    /\ pc = "loop"
    /\ queue = <<>>
    /\ pc' = "done"
    /\ UNCHANGED <<doc, queue, scheme_name, matching_items, msgs>>
    /\ HookFrame

\* the loop body as a function: the invoice and the notices after one loaded
\* scheme has been matched, evaluated and applied
LoopBody(st, scheme_doc) ==
    LET d == st.doc
        matching == MatchingItems(d, scheme_doc)
        kind == scheme_doc.type_of_promo_validation
        discount_pct == OrZero(scheme_doc.discount_percentage)
        free_qty == OrZero(scheme_doc.free_quantity)
    IN  IF ~_invoice_party_matches(d, _extract_party_values_from_scheme(scheme_doc))
        THEN st
        ELSE IF matching = <<>> THEN st
        ELSE IF kind = "Based on Minimum Amount"
                /\ AmountQualifies(d, matching, scheme_doc)
        THEN [doc |-> apply_discount_to_invoice(d, matching, discount_pct,
                                                scheme_doc.name),
              msgs |-> Append(st.msgs, DiscountMsg(scheme_doc.name, discount_pct))]
        ELSE IF kind = "Based on Minimum Quantity"
                /\ QuantityQualifies(d, matching, scheme_doc)
        THEN [doc |-> add_free_items_to_invoice(d, matching, free_qty,
                                                scheme_doc.name),
              msgs |-> Append(st.msgs, FreeMsg(scheme_doc.name, free_qty))]
        ELSE st

RECURSIVE RunSchemes(_, _, _)
\* the for loop over a list of names all of which load
RunSchemes(st, names, stored) ==
    IF names = <<>> THEN st
    ELSE RunSchemes(LoopBody(st, GetDoc(stored, Head(names))), Tail(names), stored)

----------------------------------------------------------------------------
(* Documents the operations are run on                                     *)

Dates == 1..MaxDate

Line(code, name, qty, rate, net) ==
    [item_code |-> code,
     item_name |-> name,
     qty |-> qty,
     rate |-> rate,
     amount |-> net,
     base_rate |-> IF rate = <<>> THEN <<>> ELSE Some(rate[1].num),
     base_amount |-> net,
     base_net_amount |-> net,
     discount_percentage |-> <<>>,
     is_free_item |-> 0,
     promotional_scheme_applied |-> NoneV]

\* invoice rows: two priced rows and one whose qty, rate and amounts are unset
LinePool ==
    {Line("ITEM-A", "Item A", Some(4), Some(RatOf(25)), Some(100)),
     Line("ITEM-B", "Item B", Some(1), Some(RatOf(50)), Some(50)),
     Line("ITEM-C", "Item C", <<>>, <<>>, <<>>)}

SeqsUpTo(S, n) == UNION {[1..k -> S] : k \in 0..n}

Invoice(doctype, customer, customer_group, territory, supplier, supplier_group, items) ==
    [doctype |-> doctype,
     customer |-> customer,
     customer_group |-> customer_group,
     territory |-> territory,
     supplier |-> supplier,
     supplier_group |-> supplier_group,
     items |-> items]

SalesHeads ==
    {<<"CUST-1", "CG-1", "T-1">>, <<"CUST-2", "CG-1", "T-2">>,
     <<"CUST-2", "CG-2", "T-1">>, <<"CUST-1", NoneV, "T-2">>,
     <<NoneV, NoneV, NoneV>>}

PurchaseHeads ==
    {<<"SUP-1", "SG-1">>, <<"SUP-2", "SG-1">>, <<"SUP-2", "SG-2">>,
     <<NoneV, NoneV>>}

Invoices(lines) ==
    {Invoice("Sales Invoice", h[1], h[2], h[3], NoneV, NoneV, its) :
        h \in SalesHeads, its \in SeqsUpTo(lines, MaxItems)}
    \cup
    {Invoice("Purchase Invoice", NoneV, NoneV, NoneV, h[1], h[2], its) :
        h \in PurchaseHeads, its \in SeqsUpTo(lines, MaxItems)}
    \cup
    {Invoice("Delivery Note", "CUST-1", "CG-1", "T-1", NoneV, NoneV, its) :
        its \in SeqsUpTo(lines, 1)}

PartyScope(customer, customer_group, territory, supplier, supplier_group) ==
    [customer |-> customer,
     customer_group |-> customer_group,
     territory |-> territory,
     supplier |-> supplier,
     supplier_group |-> supplier_group]

NoParty == PartyScope(<<>>, <<>>, <<>>, <<>>, <<>>)

PartyScopes ==
    {NoParty,
     PartyScope(<<KeyRow("customer", "CUST-1")>>, <<>>, <<>>, <<>>, <<>>),
     PartyScope(<<>>, <<KeyRow("customer_group", "CG-1")>>, <<>>, <<>>, <<>>),
     PartyScope(<<>>, <<>>, <<KeyRow("territory", "T-1")>>, <<>>, <<>>),
     PartyScope(<<KeyRow("customer", "CUST-1"), KeyRow("customer", "CUST-2")>>,
                <<>>, <<StrRow("T-1")>>, <<>>, <<>>),
     PartyScope(<<>>, <<>>, <<>>, <<KeyRow("supplier", "SUP-1")>>, <<>>),
     PartyScope(<<>>, <<>>, <<>>, <<>>, <<KeyRow("supplier_group", "SG-1")>>)}

ItemScope(apply_on, codes, groups) ==
    [apply_on |-> apply_on,
     promotional_scheme_on_item_code |-> codes,
     promotional_scheme_on_item_group |-> groups]

NoItems == ItemScope("Item Code", <<>>, <<>>)

ItemScopes ==
    {NoItems,
     ItemScope("Item Code", <<KeyRow("item_code", "ITEM-A")>>, <<>>),
     ItemScope("Item Code",
               <<KeyRow("item_code", "ITEM-C"), KeyRow("item_code", "ITEM-A")>>, <<>>),
     ItemScope("Item Code", <<KeyRow("item_code", "ITEM-Z")>>, <<>>),
     ItemScope("Item Group", <<>>, <<KeyRow("item_group", "GRP-1")>>),
     ItemScope("Item Group", <<>>, <<KeyRow("item_group", "GRP-3")>>),
     ItemScope("Item Group", <<KeyRow("item_code", "ITEM-A")>>,
               <<KeyRow("item_group", "GRP-2")>>)}

Rule(kind, minimum_amount, discount_percentage, minimum_quantity, free_quantity) ==
    [type_of_promo_validation |-> kind,
     minimum_amount |-> minimum_amount,
     discount_percentage |-> discount_percentage,
     minimum_quantity |-> minimum_quantity,
     free_quantity |-> free_quantity]

AmountRule(minimum_amount, discount_percentage) ==
    Rule("Based on Minimum Amount", minimum_amount, discount_percentage, <<>>, <<>>)

QuantityRule(minimum_quantity, free_quantity) ==
    Rule("Based on Minimum Quantity", <<>>, <<>>, minimum_quantity, free_quantity)

Rules ==
    {AmountRule(Some(100), Some(10)), AmountRule(Some(150), Some(10)),
     AmountRule(<<>>, Some(50)), AmountRule(Some(100), Some(100)),
     AmountRule(Some(100), <<>>), AmountRule(Some(150), Some(0 - 5)),
     QuantityRule(Some(4), Some(1)), QuantityRule(Some(5), Some(2)),
     QuantityRule(<<>>, Some(1)), QuantityRule(Some(4), <<>>),
     QuantityRule(Some(5), Some(0)),
     Rule("", Some(100), Some(10), Some(2), Some(1))}

Scheme(name, side, party, item, rule, valid_from, valid_to) ==
    [name |-> name,
     select_the_party |-> side,
     valid_from |-> valid_from,
     valid_to |-> valid_to,
     apply_on |-> item.apply_on,
     promotional_scheme_on_item_code |-> item.promotional_scheme_on_item_code,
     promotional_scheme_on_item_group |-> item.promotional_scheme_on_item_group,
     customer |-> party.customer,
     customer_group |-> party.customer_group,
     territory |-> party.territory,
     supplier |-> party.supplier,
     supplier_group |-> party.supplier_group,
     type_of_promo_validation |-> rule.type_of_promo_validation,
     minimum_amount |-> rule.minimum_amount,
     discount_percentage |-> rule.discount_percentage,
     minimum_quantity |-> rule.minimum_quantity,
     free_quantity |-> rule.free_quantity]

\* schemes stored together in the multi-scheme runs
SchemePool ==
    {Scheme("S1", "Selling", NoParty,
            ItemScope("Item Code", <<KeyRow("item_code", "ITEM-A")>>, <<>>),
            AmountRule(Some(100), Some(10)), Some(1), Some(MaxDate)),
     Scheme("S2", "Selling", NoParty, NoItems,
            QuantityRule(Some(4), Some(1)), Some(1), Some(MaxDate)),
     Scheme("S3", "Selling",
            PartyScope(<<KeyRow("customer", "CUST-1")>>, <<>>, <<>>, <<>>, <<>>),
            ItemScope("Item Group", <<>>, <<KeyRow("item_group", "GRP-1")>>),
            AmountRule(Some(150), Some(10)), Some(1), Some(MaxDate)),
     Scheme("S4", "Buying",
            PartyScope(<<>>, <<>>, <<>>, <<KeyRow("supplier", "SUP-1")>>, <<>>),
            NoItems, QuantityRule(Some(5), Some(2)), Some(1), Some(MaxDate)),
     Scheme("S5", "Selling", NoParty, NoItems,
            AmountRule(Some(50), Some(50)), Some(1), Some(1)),
     Scheme("S6", "Selling", NoParty, NoItems,
            QuantityRule(Some(1), Some(1)), <<>>, <<>>)}

DistinctNames(st) ==
    \A i, j \in DOMAIN st : st[i].name = st[j].name => i = j

\* no hook is running and no scheme is stored
NoHook ==
    /\ store = <<>>
    /\ unloadable = {}
    /\ today = 1
    /\ queue = <<>>
    /\ scheme_name = NoneV

\* no scheme form is open
NoForm ==
    /\ form = <<>>
    /\ outcome = <<>>

\* no report is being built
NoReport ==
    /\ ledger = <<>>
    /\ filters = <<>>
    /\ totals_map = <<>>
    /\ result_rows = <<>>

\* add_free_items_to_invoice is not running
NoFreeLoop == cursor = 0

HookIdle ==
    /\ submitted = doc
    /\ queue = <<>>
    /\ scheme_name = NoneV
    /\ matching_items = <<>>
    /\ msgs = <<>>
    /\ pc = "submit"
    /\ NoForm
    /\ NoReport
    /\ NoFreeLoop

\* one stored scheme, of the invoice's side and valid today, of every shape
InitSingle ==
    /\ doc \in Invoices(LinePool)
    /\ today = 1
    /\ unloadable = {}
    /\ \E party \in PartyScopes, item \in ItemScopes, rule \in Rules :
          store = <<Scheme("S1", PartySide(doc), party, item, rule,
                           Some(1), Some(MaxDate))>>
    /\ HookIdle

\* several stored schemes, some expired, undated or failing to load
InitMulti ==
    /\ doc \in {Invoice("Sales Invoice", "CUST-1", "CG-1", "T-1", NoneV, NoneV, its) :
                   its \in SeqsUpTo(LinePool, MaxItems)}
               \cup
               {Invoice("Purchase Invoice", NoneV, NoneV, NoneV, "SUP-1", "SG-1", its) :
                   its \in SeqsUpTo(LinePool, 1)}
    /\ today \in {1, MaxDate}
    /\ store \in {st \in SeqsUpTo(SchemePool, MaxSchemes) : DistinctNames(st)}
    /\ unloadable \in {{}} \cup {{st.name} : st \in Range(store)}
    /\ HookIdle

Init == InitSingle \/ InitMulti

Next == HookEnter \/ VisitScheme \/ EvaluateScheme \/ HookReturn

Spec == Init /\ [][Next]_vars

----------------------------------------------------------------------------
(* The submission hook with add_free_items_to_invoice taken row by row      *)

\* an invoice never holds more rows: a scheme appends at most one row per
\* row the invoice holds when it is matched
MaxRows == MaxItems * (2 ^ MaxSchemes)

\* variant: the loop runs over the invoice's own items table
free_loop_over_invoice_items(d, matching) == [i \in DOMAIN d.items |-> i]

\* the list `for it in matching_items` runs over: the list built in step 2
\* of the loop body (a list comprehension or list(doc.items)), which
\* doc.append does not extend
FreeLoopItems(d, matching) == matching

\* step 3 of the loop body up to the call of add_free_items_to_invoice
EvaluateMatched ==
    /\ pc = "matched"
    /\ LET scheme_doc == GetDoc(store, scheme_name)
           kind == scheme_doc.type_of_promo_validation
           discount_pct == OrZero(scheme_doc.discount_percentage)
       IN  IF kind = "Based on Minimum Amount"
              /\ AmountQualifies(doc, matching_items, scheme_doc)
           THEN /\ doc' = apply_discount_to_invoice(
                              doc, matching_items, discount_pct, scheme_doc.name)
                /\ msgs' = Append(msgs, DiscountMsg(scheme_doc.name, discount_pct))
                /\ pc' = "loop"
                /\ queue' = Tail(queue)
           ELSE IF kind = "Based on Minimum Quantity"
                   /\ QuantityQualifies(doc, matching_items, scheme_doc)
           THEN /\ pc' = "free"
                /\ UNCHANGED <<doc, msgs, queue>>
           ELSE /\ pc' = "loop"
                /\ queue' = Tail(queue)
                /\ UNCHANGED <<doc, msgs>>
    /\ cursor' = 0
    /\ UNCHANGED <<scheme_name, matching_items>>
    /\ HookState

\* one iteration of `for it in matching_items`: doc.append("items", new_row)
AppendFreeRow ==
    /\ pc = "free"
    /\ cursor < Len(FreeLoopItems(doc, matching_items))
    /\ Len(doc.items) < MaxRows
    /\ LET it == doc.items[FreeLoopItems(doc, matching_items)[cursor + 1]]
           free_qty == OrZero(GetDoc(store, scheme_name).free_quantity)
       IN  doc' = [doc EXCEPT !.items = Append(@, FreeRow(it, free_qty, scheme_name))]
    /\ cursor' = cursor + 1
    /\ UNCHANGED <<queue, scheme_name, matching_items, msgs, pc>>
    /\ HookState

\* the for loop is exhausted: the notice, and the hook's loop goes on
FreeLoopEnd ==
    /\ pc = "free"
    /\ cursor = Len(FreeLoopItems(doc, matching_items))
    /\ msgs' = Append(msgs, FreeMsg(scheme_name,
                                    OrZero(GetDoc(store, scheme_name).free_quantity)))
    /\ pc' = "loop"
    /\ queue' = Tail(queue)
    /\ cursor' = 0
    /\ UNCHANGED <<doc, scheme_name, matching_items>>
    /\ HookState

\* schemes that grant free goods, and one that grants a discount
FreePool ==
    {Scheme("S1", "Selling", NoParty,
            ItemScope("Item Code", <<KeyRow("item_code", "ITEM-A")>>, <<>>),
            AmountRule(Some(100), Some(10)), Some(1), Some(MaxDate)),
     Scheme("S2", "Selling", NoParty, NoItems,
            QuantityRule(Some(4), Some(1)), Some(1), Some(MaxDate)),
     Scheme("S7", "Selling", NoParty,
            ItemScope("Item Code", <<KeyRow("item_code", "ITEM-A")>>, <<>>),
            QuantityRule(Some(1), Some(2)), Some(1), Some(MaxDate))}

\* a Sales Invoice of up to MaxItems rows and up to MaxSchemes active schemes
InitFree ==
    /\ doc \in {Invoice("Sales Invoice", "CUST-1", "CG-1", "T-1", NoneV, NoneV, its) :
                   its \in SeqsUpTo(LinePool, MaxItems)}
    /\ today = 1
    /\ store \in {st \in SeqsUpTo(FreePool, MaxSchemes) : DistinctNames(st)}
    /\ unloadable = {}
    /\ HookIdle

NextFree ==
    HookEnter \/ VisitScheme \/ EvaluateMatched \/ AppendFreeRow \/ FreeLoopEnd
        \/ HookReturn

\* the hook runs synchronously inside the submission: an enabled step is taken
SpecFree == InitFree /\ [][NextFree]_vars /\ WF_vars(NextFree)

----------------------------------------------------------------------------
(* The effect applicator called directly                                   *)

\* strictly increasing position lists of 1..n: rows picked in invoice order
RECURSIVE PickLists(_)
PickLists(n) ==
    IF n = 0 THEN {<<>>}
    ELSE PickLists(n - 1) \cup {Append(m, n) : m \in PickLists(n - 1)}

\* discount_pct reaches apply_discount only when > 0
Percentages == {10, 50, 100}
FreeQuantities == {1, 2}
SchemeNames == {"S1", "S2"}

InitEffect ==
    /\ doc \in {Invoice("Sales Invoice", "CUST-1", "CG-1", "T-1", NoneV, NoneV, its) :
                   its \in SeqsUpTo(LinePool, MaxItems)}
    /\ submitted = doc
    /\ matching_items \in PickLists(Len(doc.items))
    /\ msgs = <<>>
    /\ pc = "call"
    /\ NoHook
    /\ NoForm
    /\ NoReport
    /\ NoFreeLoop

EffectFrame ==
    UNCHANGED <<submitted, store, unloadable, today, queue, scheme_name,
                matching_items, pc, form, outcome,
                ledger, filters, totals_map, result_rows, cursor>>

CallApplyDiscount ==
    /\ pc = "call"
    /\ Len(msgs) < MaxCalls
    /\ \E discount_pct \in Percentages, name \in SchemeNames :
          /\ doc' = apply_discount_to_invoice(doc, matching_items, discount_pct, name)
          /\ msgs' = Append(msgs, DiscountMsg(name, discount_pct))
    /\ EffectFrame

CallAddFreeItems ==
    /\ pc = "call"
    /\ Len(msgs) < MaxCalls
    /\ \E free_qty \in FreeQuantities, name \in SchemeNames :
          /\ doc' = add_free_items_to_invoice(doc, matching_items, free_qty, name)
          /\ msgs' = Append(msgs, FreeMsg(name, free_qty))
    /\ EffectFrame

NextEffect == CallApplyDiscount \/ CallAddFreeItems

SpecEffect == InitEffect /\ [][NextEffect]_vars

----------------------------------------------------------------------------
(* Saving a scheme: validate                                               *)

ErrDates == "Valid From date cannot be later than Valid To date."
ErrAmount == "Please specify both Minimum Amount and Discount Percentage."
ErrQuantity == "Please specify both Minimum Quantity and Free Quantity."
ErrItemCode == "You selected 'Item Code' but added rows in 'Promotional scheme on item group'. Please clear them."
ErrItemGroup == "You selected 'Item Group' but added rows in 'Promotional scheme on item code'. Please clear them."
Passed == "ok"

\* variant: equal dates are rejected too
validate_dates_rejects_equal(self) ==
    IF self.valid_from # <<>> /\ self.valid_to # <<>>
       /\ self.valid_from[1] >= self.valid_to[1]
    THEN ErrDates ELSE Passed

\* each check yields the message it throws, or Passed
validate_dates(self) ==
    IF self.valid_from # <<>> /\ self.valid_to # <<>>
       /\ self.valid_from[1] > self.valid_to[1]
    THEN ErrDates ELSE Passed

validate_condition_fields(self) ==
    IF self.type_of_promo_validation = "Based on Minimum Amount"
    THEN IF ~NumTruthy(self.minimum_amount) \/ ~NumTruthy(self.discount_percentage)
         THEN ErrAmount ELSE Passed
    ELSE IF self.type_of_promo_validation = "Based on Minimum Quantity"
    THEN IF ~NumTruthy(self.minimum_quantity) \/ ~NumTruthy(self.free_quantity)
         THEN ErrQuantity ELSE Passed
    ELSE Passed

\* variant: only the Item Code mode is checked
validate_apply_on_item_code_only(self) ==
    IF self.apply_on = "Item Code" /\ self.promotional_scheme_on_item_group # <<>>
    THEN ErrItemCode ELSE Passed

validate_apply_on_exclusivity(self) ==
    IF self.apply_on = "Item Code" /\ self.promotional_scheme_on_item_group # <<>>
    THEN ErrItemCode
    ELSE IF self.apply_on = "Item Group" /\ self.promotional_scheme_on_item_code # <<>>
    THEN ErrItemGroup
    ELSE Passed

\* the first check that throws ends validate
validate(self) ==
    IF validate_dates(self) # Passed THEN validate_dates(self)
    ELSE IF validate_condition_fields(self) # Passed
    THEN validate_condition_fields(self)
    ELSE validate_apply_on_exclusivity(self)

OptDates == {<<>>} \cup {Some(d) : d \in Dates}
FormNumbers == {<<>>, Some(0), Some(0 - 5), Some(10)}

FormRules ==
    {AmountRule(a, b) : a \in FormNumbers, b \in FormNumbers}
    \cup {QuantityRule(a, b) : a \in FormNumbers, b \in FormNumbers}
    \cup {Rule("", <<>>, <<>>, <<>>, <<>>)}

FormItemScopes ==
    {ItemScope(mode, codes, groups) :
        mode \in {"Item Code", "Item Group", ""},
        codes \in {<<>>, <<KeyRow("item_code", "ITEM-A")>>},
        groups \in {<<>>, <<KeyRow("item_group", "GRP-1")>>}}

InitValidate ==
    /\ \E item \in FormItemScopes, rule \in FormRules,
          valid_from \in OptDates, valid_to \in OptDates :
          form = Scheme("S1", "Selling", NoParty, item, rule, valid_from, valid_to)
    /\ outcome = <<>>
    /\ doc = <<>>
    /\ submitted = <<>>
    /\ matching_items = <<>>
    /\ msgs = <<>>
    /\ pc = "form"
    /\ NoHook
    /\ NoReport
    /\ NoFreeLoop

\* Document.save: validate runs, and only a scheme that passes is stored
SaveScheme ==
    /\ pc = "form"
    /\ outcome' = validate(form)
    /\ store' = IF validate(form) = Passed THEN Append(store, form) ELSE store
    /\ pc' = "closed"
    /\ UNCHANGED <<doc, submitted, unloadable, today, queue, scheme_name,
                   matching_items, msgs, form,
                   ledger, filters, totals_map, result_rows, cursor>>

NextValidate == SaveScheme

SpecValidate == InitValidate /\ [][NextValidate]_vars

----------------------------------------------------------------------------
(* Scope extraction on a scheme document                                   *)

\* child rows: well-formed ones, a row of metadata only, and a saved row whose
\* value field is empty (as_dict lists name and owner before the fields)
ScopeRows ==
    {KeyRow("item_code", "ITEM-A"), KeyRow("item_code", "ITEM-C"),
     KeyRow("item_group", "GRP-1"), KeyRow("item_group", "GRP-2"),
     KeyRow("item_group", "GRP-3"), StrRow("ITEM-B"), StrRow(""),
     DictRow(<< <<"name", "row">>, <<"idx", "1">> >>),
     DictRow(<< <<"name", "row">>, <<"owner", "Administrator">>,
                <<"idx", "1">>, <<"item_code", "">>, <<"item_group", "">> >>)}

\* a child table holds rows of one shape
RowLists ==
    {rows \in SeqsUpTo(ScopeRows, MaxItems) :
        \A i, j \in DOMAIN rows : rows[i].isstr = rows[j].isstr}

InitScope ==
    /\ \E mode \in {"Item Code", "Item Group"},
          codes \in RowLists, groups \in RowLists :
          form = Scheme("S1", "Selling", NoParty, ItemScope(mode, codes, groups),
                        AmountRule(Some(100), Some(10)), Some(1), Some(MaxDate))
    /\ outcome = <<>>
    /\ doc = <<>>
    /\ submitted = <<>>
    /\ matching_items = <<>>
    /\ msgs = <<>>
    /\ pc = "scope"
    /\ NoHook
    /\ NoReport
    /\ NoFreeLoop

\* resolve_item_scope as the hook and as the report compute it
ResolveItemScope ==
    /\ pc = "scope"
    /\ outcome' = [hook |-> _extract_item_codes_from_scheme(form),
                   report |-> report_extract_item_codes_from_scheme(form)]
    /\ pc' = "resolved"
    /\ UNCHANGED <<doc, submitted, store, unloadable, today, queue, scheme_name,
                   matching_items, msgs, form,
                   ledger, filters, totals_map, result_rows, cursor>>

NextScope == ResolveItemScope

SpecScope == InitScope /\ [][NextScope]_vars

----------------------------------------------------------------------------
(* The report: scope, historical totals, rows                              *)

\* the Customer catalog: name -> customer group and territory
CustomerCatalog ==
    [c \in {"CUST-1", "CUST-2", "CUST-3"} |->
        IF c = "CUST-1" THEN [customer_group |-> "CG-1", territory |-> "T-1"]
        ELSE IF c = "CUST-2" THEN [customer_group |-> "CG-1", territory |-> "T-2"]
        ELSE [customer_group |-> "CG-2", territory |-> "T-1"]]

\* the Supplier catalog: name -> supplier group
SupplierCatalog ==
    [c \in {"SUP-1", "SUP-2"} |-> IF c = "SUP-1" THEN "SG-1" ELSE "SG-2"]

\* sorted() on the names the catalogs hold: their order as strings
NameOrder ==
    <<"CUST-1", "CUST-2", "CUST-3", "ITEM-A", "ITEM-B", "ITEM-C", "SUP-1", "SUP-2">>

InSet(S) == [x \in Range(NameOrder) |-> x \in S]

Sorted(S) == LET in == InSet(S) IN SelectSeq(NameOrder, LAMBDA x : in[x])

\* the report's own copy: groups and territories are expanded into customers,
\* supplier groups into suppliers
report_extract_party_values_from_scheme(scheme_doc) ==
    LET customers == report_extract_values_from_child_rows(
                         scheme_doc.customer, <<"customer", "value">>)
        customer_groups == report_extract_values_from_child_rows(
                         scheme_doc.customer_group, <<"customer_group", "group">>)
        territories == report_extract_values_from_child_rows(
                         scheme_doc.territory, <<"territory", "value">>)
        suppliers == report_extract_values_from_child_rows(
                         scheme_doc.supplier, <<"supplier", "value">>)
        supplier_groups == report_extract_values_from_child_rows(
                         scheme_doc.supplier_group, <<"supplier_group", "group">>)
        cg_customers == {c \in DOMAIN CustomerCatalog :
                            CustomerCatalog[c].customer_group \in customer_groups}
        t_customers == {c \in DOMAIN CustomerCatalog :
                            CustomerCatalog[c].territory \in territories}
        sg_suppliers == {c \in DOMAIN SupplierCatalog :
                            SupplierCatalog[c] \in supplier_groups}
    IN  [customers |-> {c \in customers \cup cg_customers \cup t_customers : Truthy(c)},
         customer_groups |-> {c \in customer_groups : Truthy(c)},
         territories |-> {c \in territories : Truthy(c)},
         suppliers |-> {c \in suppliers \cup sg_suppliers : Truthy(c)},
         supplier_groups |-> {c \in supplier_groups : Truthy(c)}]

\* one invoice of the database
LedgerInvoice(doctype, docstatus, posting_date, party, items) ==
    [doctype |-> doctype,
     docstatus |-> docstatus,
     posting_date |-> posting_date,
     customer |-> IF doctype = "Sales Invoice" THEN party ELSE NoneV,
     supplier |-> IF doctype = "Purchase Invoice" THEN party ELSE NoneV,
     items |-> items]

\* FROM header si JOIN item_table sii ON sii.parent = si.name: one record per
\* item row of an invoice of the side's doctype
JoinRow(inv, it, party_side) ==
    [docstatus |-> inv.docstatus,
     posting_date |-> inv.posting_date,
     party_name |-> IF party_side = "Selling" THEN inv.customer ELSE inv.supplier,
     item_code |-> it.item_code,
     amount |-> IF it.base_net_amount # <<>> THEN it.base_net_amount[1]
                ELSE IF it.base_amount # <<>> THEN it.base_amount[1]
                ELSE IF it.amount # <<>> THEN it.amount[1]
                ELSE 0,
     qty |-> OrZero(it.qty)]

RECURSIVE Joined(_, _)
Joined(led, party_side) ==
    IF led = <<>> THEN <<>>
    ELSE LET inv == Head(led)
             header == IF party_side = "Selling" THEN "Sales Invoice"
                       ELSE "Purchase Invoice"
         IN  (IF inv.doctype = header
              THEN [j \in DOMAIN inv.items |-> JoinRow(inv, inv.items[j], party_side)]
              ELSE <<>>)
             \o Joined(Tail(led), party_side)

\* variant: the scheme's own date wins over the report's
window_bound_scheme_first(report_date, scheme_date) ==
    IF scheme_date # <<>> THEN scheme_date ELSE report_date

\* one bound of the date range: the report's date if given, else the scheme's
WindowBound(report_date, scheme_date) ==
    IF report_date # <<>> THEN report_date ELSE scheme_date

\* the date clause of the query
DateClause(posting_date, from_date, to_date) ==
    IF from_date # <<>> /\ to_date # <<>>
    THEN from_date[1] <= posting_date /\ posting_date <= to_date[1]
    ELSE IF from_date # <<>> THEN posting_date >= from_date[1]
    ELSE IF to_date # <<>> THEN posting_date <= to_date[1]
    ELSE TRUE

\* `x or None` on a selected column
OrNone(v) == IF Truthy(v) THEN v ELSE NoneV

\* parties: sequence of <<party_type, party_name>>; items: sequence of item
\* codes or <<NoneV>>.  The result maps <<party, item>> to the two sums.
_get_totals_for_scheme(scheme_doc, party_side, parties, items, report_from, report_to, led) ==
    LET from_date == WindowBound(report_from, scheme_doc.valid_from)
        to_date == WindowBound(report_to, scheme_doc.valid_to)
        concrete_parties == {parties[i][2] : i \in {j \in DOMAIN parties :
                                                       Truthy(parties[j][2])}}
        concrete_items == {items[i] : i \in {j \in DOMAIN items : Truthy(items[j])}}
        keep(r) == /\ r.docstatus = 1
                   /\ DateClause(r.posting_date, from_date, to_date)
                   /\ concrete_parties # {} => r.party_name \in concrete_parties
                   /\ concrete_items # {} => r.item_code \in concrete_items
        rows == SelectSeq(Joined(led, party_side), keep)
        keys == {<<OrNone(rows[i].party_name), OrNone(rows[i].item_code)>> :
                    i \in DOMAIN rows}
        group(k) == SelectSeq(rows, LAMBDA r : <<OrNone(r.party_name),
                                                 OrNone(r.item_code)>> = k)
    IN  [k \in keys |->
            [total_amount |-> SumSeq([i \in DOMAIN group(k) |-> group(k)[i].amount]),
             total_qty |-> SumSeq([i \in DOMAIN group(k) |-> group(k)[i].qty])]]

\* the characters of the strings the report compares (any other string
\* stands as one opaque character)
Chars(s) ==
    CASE s = "ITEM-A" -> <<"I", "T", "E", "M", "-", "A">>
      [] s = "ITEM-B" -> <<"I", "T", "E", "M", "-", "B">>
      [] s = "ITEM-C" -> <<"I", "T", "E", "M", "-", "C">>
      [] s = "-" -> <<"-">>
      [] s = "item" -> <<"i", "t", "e", "m">>
      [] s = "m-a" -> <<"m", "-", "a">>
      [] s = " Item-B " -> <<" ", "I", "t", "e", "m", "-", "B", " ">>
      [] s = "S1" -> <<"S", "1">>
      [] s = "S2" -> <<"S", "2">>
      [] s = "Summer" -> <<"S", "u", "m", "m", "e", "r">>
      [] s = "Customer" -> <<"C", "u", "s", "t", "o", "m", "e", "r">>
      [] s = "Supplier" -> <<"S", "u", "p", "p", "l", "i", "e", "r">>
      [] s = "" -> <<>>
      [] OTHER -> <<s>>

\* str.lower() on one character
LowerChar(c) ==
    CASE c = "A" -> "a" [] c = "B" -> "b" [] c = "C" -> "c" [] c = "E" -> "e"
      [] c = "I" -> "i" [] c = "M" -> "m" [] c = "S" -> "s" [] c = "T" -> "t"
      [] OTHER -> c

Lower(cs) == [i \in DOMAIN cs |-> LowerChar(cs[i])]

RECURSIVE Strip(_)
\* str.strip(): leading and trailing blanks removed
Strip(cs) ==
    IF cs = <<>> THEN cs
    ELSE IF Head(cs) = " " THEN Strip(Tail(cs))
    ELSE IF cs[Len(cs)] = " " THEN Strip(SubSeq(cs, 1, Len(cs) - 1))
    ELSE cs

\* hay.find(term) != -1
Find(hay, term) ==
    \E k \in 0..Len(hay) :
        k + Len(term) <= Len(hay) /\ SubSeq(hay, k + 1, k + Len(term)) = term

\* `(value or "")` of a string column
OrEmpty(v) == IF Truthy(v) THEN v ELSE ""

\* (r.get(col) or "").strip() == wanted
StripEquals(v, wanted) == Strip(Chars(OrEmpty(v))) = Chars(wanted)

NoFilters ==
    [scheme_name |-> NoneV, party_type |-> NoneV, party_name |-> NoneV,
     apply_on |-> NoneV, item_or_group |-> NoneV,
     from_date |-> <<>>, to_date |-> <<>>,
     min_invoice_amount |-> <<>>, max_invoice_amount |-> <<>>,
     min_invoice_qty |-> <<>>, max_invoice_qty |-> <<>>,
     discount_min |-> <<>>, discount_max |-> <<>>,
     show_only_eligible |-> 0]

\* variant: a scheme without an end date is dropped by a from_date filter
valid_to_reaches_if_known(r, from_date) ==
    r.valid_to # <<>> /\ r.valid_to[1] >= from_date

\* not r.get("valid_to") or getdate(r.get("valid_to")) >= from_date
ValidToReaches(r, from_date) ==
    r.valid_to = <<>> \/ r.valid_to[1] >= from_date

\* the filters are applied one after the other, each on what the last one
\* left; a filter that is not supplied keeps every row
_apply_report_filters(rows, f) ==
    LET t1(r) == Truthy(f.scheme_name)
                    => StripEquals(r.scheme_name, f.scheme_name)
        t2(r) == Truthy(f.party_type)
                    => StripEquals(r.party_type, f.party_type)
        t3(r) == Truthy(f.party_name) => OrEmpty(r.party_name) = f.party_name
        t4(r) == Truthy(f.apply_on) => OrEmpty(r.apply_on) = f.apply_on
        t5(r) == Truthy(f.item_or_group)
                    => Find(Lower(Chars(OrEmpty(r.item_or_group))),
                            Lower(Strip(Chars(f.item_or_group))))
        t6(r) == f.from_date # <<>> => ValidToReaches(r, f.from_date[1])
        t7(r) == f.to_date # <<>>
                    => (r.valid_from = <<>> \/ r.valid_from[1] <= f.to_date[1])
        t8(r) == f.min_invoice_amount # <<>>
                    => r.invoice_amount >= f.min_invoice_amount[1]
        t9(r) == f.max_invoice_amount # <<>>
                    => r.invoice_amount <= f.max_invoice_amount[1]
        t10(r) == f.min_invoice_qty # <<>> => r.invoice_qty >= f.min_invoice_qty[1]
        t11(r) == f.max_invoice_qty # <<>> => r.invoice_qty <= f.max_invoice_qty[1]
        t12(r) == f.discount_min # <<>>
                    => r.discount_percentage >= f.discount_min[1]
        t13(r) == f.discount_max # <<>>
                    => r.discount_percentage <= f.discount_max[1]
        t14(r) == f.show_only_eligible = 1
                    => OrEmpty(r.eligibility_status) = "Eligible"
        r1 == SelectSeq(rows, t1)
        r2 == SelectSeq(r1, t2)
        r3 == SelectSeq(r2, t3)
        r4 == SelectSeq(r3, t4)
        r5 == SelectSeq(r4, t5)
        r6 == SelectSeq(r5, t6)
        r7 == SelectSeq(r6, t7)
        r8 == SelectSeq(r7, t8)
        r9 == SelectSeq(r8, t9)
        r10 == SelectSeq(r9, t10)
        r11 == SelectSeq(r10, t11)
        r12 == SelectSeq(r11, t12)
        r13 == SelectSeq(r12, t13)
    IN  SelectSeq(r13, t14)

RECURSIVE Reverse(_)
Reverse(s) == IF s = <<>> THEN <<>> ELSE Append(Reverse(Tail(s)), Head(s))

\* the first query of get_data: names by scheme_name and apply_on, newest first
SelectSchemes(st, f) ==
    LET keep(s) == /\ Truthy(f.scheme_name) => s.name = f.scheme_name
                   /\ Truthy(f.apply_on) => s.apply_on = f.apply_on
        kept == SelectSeq(st, keep)
    IN  Reverse([i \in DOMAIN kept |-> kept[i].name])

\* scheme_doc.scheme_name or scheme_doc.name
SchemeTitle(scheme_doc) ==
    IF "scheme_name" \in DOMAIN scheme_doc /\ Truthy(scheme_doc.scheme_name)
    THEN scheme_doc.scheme_name
    ELSE scheme_doc.name

\* "Selling" or "Buying"; anything else is taken as Selling
ReportSide(scheme_doc) ==
    IF scheme_doc.select_the_party \in {"Selling", "Buying"}
    THEN scheme_doc.select_the_party
    ELSE "Selling"

\* the parties the scheme names, sorted; empty when it names none
DeclaredParties(scheme_doc) ==
    LET parties_dict == report_extract_party_values_from_scheme(scheme_doc)
        customers == Sorted(parties_dict.customers)
        suppliers == Sorted(parties_dict.suppliers)
    IN  IF scheme_doc.select_the_party = "Selling"
        THEN [i \in DOMAIN customers |-> <<"Customer", customers[i]>>]
        ELSE IF scheme_doc.select_the_party = "Buying"
        THEN [i \in DOMAIN suppliers |-> <<"Supplier", suppliers[i]>>]
        ELSE <<>>

\* sorted(item_codes) if item_codes else [None]
ReportItems(scheme_doc) ==
    LET item_codes == report_extract_item_codes_from_scheme(scheme_doc)
    IN  IF item_codes # {} THEN Sorted(item_codes) ELSE <<NoneV>>

\* the totals query as get_data calls it
SchemeTotals(scheme_doc, f, led) ==
    _get_totals_for_scheme(scheme_doc, ReportSide(scheme_doc),
                           DeclaredParties(scheme_doc), ReportItems(scheme_doc),
                           f.from_date, f.to_date, led)

\* the parties found in the totals
FoundParties(totals) == {k[1] : k \in {x \in DOMAIN totals : Truthy(x[1])}}

\* the orders in which a set can be iterated
Orders(S) ==
    {o \in [1..Cardinality(S) -> S] : \A i, j \in DOMAIN o : o[i] = o[j] => i = j}

\* the eligibility of one cell
Eligible(scheme_doc, total_amount, total_qty) ==
    IF scheme_doc.type_of_promo_validation = "Based on Minimum Amount"
    THEN /\ OrZero(scheme_doc.minimum_amount) > 0
         /\ total_amount >= OrZero(scheme_doc.minimum_amount)
    ELSE IF scheme_doc.type_of_promo_validation = "Based on Minimum Quantity"
    THEN /\ OrZero(scheme_doc.minimum_quantity) > 0
         /\ total_qty >= OrZero(scheme_doc.minimum_quantity)
    ELSE total_amount > 0 \/ total_qty > 0

\* one result row
ReportRow(scheme_doc, party_type, party_name, item_code, totals) ==
    LET key == <<party_name, item_code>>
        total_amount == IF key \in DOMAIN totals THEN totals[key].total_amount ELSE 0
        total_qty == IF key \in DOMAIN totals THEN totals[key].total_qty ELSE 0
    IN  [scheme_name |-> SchemeTitle(scheme_doc),
         party_type |-> party_type,
         party_name |-> IF Truthy(party_name) THEN party_name ELSE "All",
         apply_on |-> IF Truthy(scheme_doc.apply_on) THEN scheme_doc.apply_on ELSE "-",
         item_or_group |-> IF Truthy(item_code) THEN item_code ELSE "-",
         minimum_amount |-> OrZero(scheme_doc.minimum_amount),
         minimum_quantity |-> OrZero(scheme_doc.minimum_quantity),
         discount_percentage |-> OrZero(scheme_doc.discount_percentage),
         free_quantity |-> OrZero(scheme_doc.free_quantity),
         valid_from |-> scheme_doc.valid_from,
         valid_to |-> scheme_doc.valid_to,
         invoice_amount |-> total_amount,
         invoice_qty |-> total_qty,
         eligibility_status |-> IF Eligible(scheme_doc, total_amount, total_qty)
                                THEN "Eligible" ELSE "Not Eligible"]

\* the rows of one scheme: parties outside, items inside; a scheme that names
\* no party takes the parties found in the totals, in the given order
SchemeRows(scheme_doc, totals, order) ==
    LET declared == DeclaredParties(scheme_doc)
        party_type == IF ReportSide(scheme_doc) = "Selling" THEN "Customer"
                      ELSE "Supplier"
        parties == IF declared # <<>> THEN declared
                   ELSE [i \in DOMAIN order |-> <<party_type, order[i]>>]
        items == ReportItems(scheme_doc)
        n == Len(items)
    IN  [c \in 1..(Len(parties) * n) |->
            ReportRow(scheme_doc,
                      parties[((c - 1) \div n) + 1][1],
                      parties[((c - 1) \div n) + 1][2],
                      items[((c - 1) % n) + 1],
                      totals)]

ReportFrame ==
    UNCHANGED <<doc, submitted, store, unloadable, today, matching_items, msgs,
                form, ledger, filters, cursor>>

\* get_data up to the loop over the selected schemes
ReportEnter ==
    /\ pc = "report"
    /\ queue' = SelectSchemes(store, filters)
    /\ pc' = "rows"
    /\ UNCHANGED <<scheme_name, outcome, totals_map, result_rows>>
    /\ ReportFrame

\* one pass of the loop: a scheme that fails to load is skipped
ReportScheme ==
    /\ pc = "rows"
    /\ queue # <<>>
    /\ scheme_name' = Head(queue)
    /\ queue' = Tail(queue)
    /\ IF Head(queue) \in unloadable
       THEN UNCHANGED <<totals_map, result_rows>>
       ELSE LET scheme_doc == GetDoc(store, Head(queue))
                totals == SchemeTotals(scheme_doc, filters, ledger)
            IN  /\ totals_map' = totals
                /\ \E order \in Orders(FoundParties(totals)) :
                      result_rows' = result_rows \o SchemeRows(scheme_doc, totals, order)
    /\ UNCHANGED <<pc, outcome>>
    /\ ReportFrame

\* the loop is over: the built rows go through the report filters
ReportReturn ==
    /\ pc = "rows"
    /\ queue = <<>>
    /\ outcome' = _apply_report_filters(result_rows, filters)
    /\ pc' = "returned"
    /\ UNCHANGED <<queue, scheme_name, totals_map, result_rows>>
    /\ ReportFrame

----------------------------------------------------------------------------
(* The databases and filters the report is run on                          *)

MaxLedger == 2
MaxFilters == 2

\* an invoice item row as the totals query reads it
SoldLine(code, qty, base_net_amount, base_amount, amount) ==
    [item_code |-> code, qty |-> qty, base_net_amount |-> base_net_amount,
     base_amount |-> base_amount, amount |-> amount]

SoldA == SoldLine("ITEM-A", Some(4), Some(100), Some(100), Some(100))
SoldB == SoldLine("ITEM-B", Some(1), Some(50), Some(50), Some(50))
\* a row of which only the plain amount is stored
SoldBPlain == SoldLine("ITEM-B", <<>>, <<>>, <<>>, Some(30))

\* submitted invoices on every day, and one draft
LedgerPool ==
    {LedgerInvoice("Sales Invoice", 1, d, "CUST-1", <<SoldA>>) : d \in Dates}
    \cup {LedgerInvoice("Sales Invoice", 1, d, "CUST-2", <<SoldA, SoldBPlain>>) :
             d \in Dates}
    \cup {LedgerInvoice("Purchase Invoice", 1, d, "SUP-1", <<SoldB>>) : d \in Dates}
    \cup {LedgerInvoice("Sales Invoice", 0, 2, "CUST-2", <<SoldA>>)}

\* invoices are stored in posting order; on one day CUST-1 is invoiced first
PostedBefore(a, b) ==
    \/ a.posting_date < b.posting_date
    \/ /\ a.posting_date = b.posting_date
       /\ a.customer = "CUST-1"
       /\ b.customer # "CUST-1"

Ledgers ==
    {led \in SeqsUpTo(LedgerPool, MaxLedger) :
        \A i, j \in DOMAIN led : i < j => PostedBefore(led[i], led[j])}

\* a scheme whose scheme_name field differs from its document name
Titled(scheme_doc, title) ==
    [k \in DOMAIN scheme_doc \cup {"scheme_name"} |->
        IF k = "scheme_name" THEN title ELSE scheme_doc[k]]

ItemA == ItemScope("Item Code", <<KeyRow("item_code", "ITEM-A")>>, <<>>)

\* schemes the totals are computed for, one at a time
ReportSchemes ==
    {Scheme("S1", "Selling", NoParty, ItemA,
            AmountRule(Some(100), Some(10)), Some(1), Some(MaxDate)),
     Scheme("S1", "Selling", NoParty, ItemA,
            AmountRule(Some(150), Some(10)), Some(2), <<>>),
     Scheme("S1", "Selling", NoParty, NoItems,
            QuantityRule(Some(4), Some(1)), <<>>, Some(2)),
     Scheme("S1", "Selling",
            PartyScope(<<>>, <<KeyRow("customer_group", "CG-1")>>, <<>>, <<>>, <<>>),
            ItemScope("Item Group", <<>>, <<KeyRow("item_group", "GRP-1")>>),
            AmountRule(<<>>, Some(50)), <<>>, <<>>),
     Scheme("S1", "Selling",
            PartyScope(<<KeyRow("customer", "CUST-3")>>, <<>>, <<>>, <<>>, <<>>),
            ItemA, AmountRule(Some(100), Some(10)), Some(2), Some(2)),
     Scheme("S1", "Selling",
            PartyScope(<<>>, <<>>, <<KeyRow("territory", "T-1")>>, <<>>, <<>>),
            ItemScope("Item Code", <<KeyRow("item_code", "ITEM-B")>>, <<>>),
            AmountRule(Some(0 - 5), Some(10)), Some(1), Some(MaxDate)),
     Scheme("S1", "Selling",
            PartyScope(<<KeyRow("customer", "CUST-3")>>,
                       <<KeyRow("customer_group", "CG-1")>>, <<>>, <<>>, <<>>),
            NoItems, AmountRule(Some(100), Some(10)), <<>>, <<>>),
     Scheme("S1", "Buying", NoParty, NoItems,
            QuantityRule(Some(1), Some(1)), Some(1), Some(MaxDate)),
     Scheme("S1", "", NoParty, NoItems,
            Rule("", <<>>, <<>>, <<>>, <<>>), Some(1), Some(MaxDate))}

\* schemes listed together when the report filters are exercised
FilterSchemes ==
    {Scheme("S1", "Selling", NoParty, ItemA,
            AmountRule(Some(100), Some(10)), Some(1), Some(2)),
     Titled(Scheme("S2", "Selling",
                   PartyScope(<<>>, <<KeyRow("customer_group", "CG-1")>>,
                              <<>>, <<>>, <<>>),
                   ItemScope("Item Group", <<>>, <<KeyRow("item_group", "GRP-1")>>),
                   QuantityRule(Some(4), Some(1)), <<>>, <<>>),
            "Summer"),
     Scheme("S3", "Buying", NoParty, NoItems,
            AmountRule(Some(50), Some(5)), Some(2), <<>>)}

FilterLedger ==
    <<LedgerInvoice("Sales Invoice", 1, 1, "CUST-1", <<SoldA>>),
      LedgerInvoice("Sales Invoice", 1, 2, "CUST-2", <<SoldA, SoldBPlain>>),
      LedgerInvoice("Purchase Invoice", 1, 2, "SUP-1", <<SoldB>>)>>

\* values a user can supply for each filter
FilterChoices ==
    {<<"scheme_name", "S1">>, <<"scheme_name", "Summer">>,
     <<"party_type", "Customer">>, <<"party_type", "Supplier">>,
     <<"party_name", "CUST-1">>, <<"party_name", "All">>,
     <<"apply_on", "Item Code">>, <<"apply_on", "Item Group">>,
     <<"item_or_group", "item">>, <<"item_or_group", "m-a">>,
     <<"item_or_group", " Item-B ">>, <<"item_or_group", "-">>,
     <<"from_date", Some(1)>>, <<"from_date", Some(MaxDate)>>,
     <<"to_date", Some(1)>>, <<"to_date", Some(MaxDate)>>,
     <<"min_invoice_amount", Some(0)>>, <<"min_invoice_amount", Some(100)>>,
     <<"max_invoice_amount", Some(100)>>, <<"max_invoice_amount", Some(99)>>,
     <<"min_invoice_qty", Some(4)>>, <<"max_invoice_qty", Some(4)>>,
     <<"max_invoice_qty", Some(0)>>,
     <<"discount_min", Some(10)>>, <<"discount_max", Some(5)>>,
     <<"show_only_eligible", 1>>}

RECURSIVE Picks(_)
\* at most n choices
Picks(n) ==
    IF n = 0 THEN {{}}
    ELSE Picks(n - 1) \cup {P \cup {c} : P \in Picks(n - 1), c \in FilterChoices}

\* the filters with the chosen values set (one value per filter)
WithFilters(P) ==
    [k \in DOMAIN NoFilters |->
        IF \E c \in P : c[1] = k
        THEN (CHOOSE c \in P : c[1] = k)[2]
        ELSE NoFilters[k]]

FilterSets ==
    {WithFilters(P) : P \in {Q \in Picks(MaxFilters) :
                                \A a, b \in Q : a[1] = b[1] => a = b}}

DateFilters ==
    {[NoFilters EXCEPT !.from_date = a, !.to_date = b] :
        a \in OptDates, b \in OptDates}

ReportIdle ==
    /\ doc = <<>>
    /\ submitted = <<>>
    /\ today = 1
    /\ queue = <<>>
    /\ scheme_name = NoneV
    /\ matching_items = <<>>
    /\ msgs = <<>>
    /\ form = <<>>
    /\ outcome = <<>>
    /\ totals_map = <<>>
    /\ result_rows = <<>>
    /\ cursor = 0
    /\ pc = "report"

\* S1 was created before S2, and S2 before S3
CreatedInNameOrder(st) ==
    \A i, j \in DOMAIN st :
        i < j => <<st[i].name, st[j].name>> \in {<<"S1", "S2">>, <<"S1", "S3">>, <<"S2", "S3">>}

\* one scheme, any database, a date range or none on the report
InitReportTotals ==
    /\ store \in {<<sd>> : sd \in ReportSchemes}
    /\ unloadable = {}
    /\ ledger \in Ledgers
    /\ filters \in DateFilters
    /\ ReportIdle

\* several schemes, the oldest of which may fail to load, and any filters
InitReportFilters ==
    /\ store \in {st \in SeqsUpTo(FilterSchemes, MaxSchemes) : CreatedInNameOrder(st)}
    /\ unloadable \in {{}} \cup {{store[i].name} : i \in DOMAIN store \cap {1}}
    /\ ledger = FilterLedger
    /\ filters \in FilterSets
    /\ ReportIdle

InitReport == InitReportTotals \/ InitReportFilters

NextReport == ReportEnter \/ ReportScheme \/ ReportReturn

SpecReport == InitReport /\ [][NextReport]_vars

----------------------------------------------------------------------------
(* Properties of the matcher and the evaluator, checked under Spec         *)

\* the hook is about to load and match the scheme at the head of the queue
Visiting == pc = "loop" /\ queue # <<>> /\ Head(queue) \notin unloadable

\* the scheme VisitScheme is about to take, and the one it took last
NextScheme == GetDoc(store, Head(queue))
CurrentScheme == GetDoc(store, scheme_name)

EmptyPartyScope(sd) ==
    /\ sd.customer = <<>> /\ sd.customer_group = <<>> /\ sd.territory = <<>>
    /\ sd.supplier = <<>> /\ sd.supplier_group = <<>>

NoItemRows(sd) ==
    /\ sd.promotional_scheme_on_item_code = <<>>
    /\ sd.promotional_scheme_on_item_group = <<>>

\* the resolved item set of the scheme
ResolvedItems(sd) == _extract_item_codes_from_scheme(sd)

\* a row is in item scope: the scope is unrestricted or holds the row's code
InItemScope(it, sd) == ResolvedItems(sd) = {} \/ it.item_code \in ResolvedItems(sd)

AllPositions(d) == [i \in DOMAIN d.items |-> i]

\* C1: a scheme with no party rows on any dimension passes the party gate for
\* every invoice, whatever its customer, supplier, group or territory (also
\* when none is set), and so applies as soon as one row is in item scope.
C1_EmptyPartyScopeIsWildcard ==
    [][(Visiting /\ EmptyPartyScope(NextScheme))
        => /\ _invoice_party_matches(
                  doc, _extract_party_values_from_scheme(NextScheme))
           /\ (\E i \in DOMAIN doc.items : InItemScope(doc.items[i], NextScheme))
                 => (pc' = "matched" /\ scheme_name' = Head(queue))]_vars

\* C1 witness: a scope-less scheme matched a sales invoice that names no customer
C1_Witness ==
    /\ pc = "matched"
    /\ EmptyPartyScope(CurrentScheme)
    /\ doc.doctype = "Sales Invoice"
    /\ doc.customer = NoneV /\ doc.customer_group = NoneV /\ doc.territory = NoneV
    /\ matching_items # <<>>

\* C2: a scheme with no item-code and no item-group rows, once the party gate
\* is passed, matches every row of the invoice, in order, none left out.
C2_EmptyItemScopeMatchesAll ==
    [][(/\ Visiting
        /\ NoItemRows(NextScheme)
        /\ _invoice_party_matches(doc, _extract_party_values_from_scheme(NextScheme)))
        => /\ matching_items' = AllPositions(doc)
           /\ doc.items # <<>> => pc' = "matched"]_vars

\* C2 witness: a scheme without item rows matched both rows of a two-row invoice
C2_Witness ==
    /\ pc = "matched"
    /\ NoItemRows(CurrentScheme)
    /\ Len(doc.items) >= 2
    /\ matching_items = AllPositions(doc)

\* C3: a scheme that declares item codes or item groups matches exactly the
\* rows whose code is in the resolved set, in invoice order, and does not apply
\* when no row is in the set; only a scheme without declarations matches all.
C3_DeclaredItemScopeRestricts ==
    (pc = "matched" /\ ~NoItemRows(CurrentScheme))
        => matching_items = SelectIdx(doc.items, ResolvedItems(CurrentScheme), 1)

\* the invoice's value on a dimension the scheme declares is absent or outside
Misses(declared, value) ==
    declared # {} /\ (value \in {NoneV, ""} \/ value \notin declared)

DeclaredDimensionFails(d, sd) ==
    LET p == _extract_party_values_from_scheme(sd)
    IN  \/ /\ d.doctype = "Sales Invoice"
           /\ \/ Misses(p.customers, d.customer)
              \/ Misses(p.customer_groups, d.customer_group)
              \/ Misses(p.territories, d.territory)
        \/ /\ d.doctype = "Purchase Invoice"
           /\ \/ Misses(p.suppliers, d.supplier)
              \/ Misses(p.supplier_groups, d.supplier_group)

\* C4: when a party dimension the scheme declares for the invoice's side is
\* absent on the invoice or holds a value outside the declared set, the match
\* fails and the scheme leaves the invoice as it was: no row changes, none is
\* appended, nothing is announced.
C4_FailedPartyGateChangesNothing ==
    [][(Visiting /\ DeclaredDimensionFails(doc, NextScheme))
        => /\ pc' = "loop"
           /\ queue' = Tail(queue)
           /\ doc' = doc
           /\ msgs' = msgs]_vars

\* C4 witness: a scheme scoped to supplier SUP-1 was visited on a purchase
\* invoice from SUP-2 and the hook returned with the invoice untouched
C4_Witness ==
    /\ pc = "done"
    /\ Len(store) = 1
    /\ scheme_name = store[1].name
    /\ store[1].supplier = <<KeyRow("supplier", "SUP-1")>>
    /\ doc.doctype = "Purchase Invoice"
    /\ doc.supplier = "SUP-2"
    /\ DeclaredDimensionFails(doc, store[1])
    /\ doc.items # <<>>
    /\ doc = submitted
    /\ msgs = <<>>

\* the aggregate of a numeric field over the matched rows, missing as 0
MatchedSum(d, matching, field) ==
    SumSeq([j \in DOMAIN matching |-> OrZero(d.items[matching[j]][field])])

\* C5: for a matched scheme the effect is applied exactly when the aggregate
\* over the matched rows reaches the threshold (inclusively) and the effect
\* parameter is positive: a discount under the amount rule, free rows under
\* the quantity rule; otherwise the invoice is left as it was.
C5_EffectIffThresholdReached ==
    [][pc = "matched"
        => LET sd == CurrentScheme
               n == Len(msgs)
               announced(k) == Len(msgs') = n + 1 /\ msgs'[n + 1].kind = k
               discounted ==
                   /\ announced("discount")
                   /\ Len(doc'.items) = Len(doc.items)
                   /\ \A j \in DOMAIN matching_items :
                         /\ doc'.items[matching_items[j]].discount_percentage
                               = sd.discount_percentage
                         /\ doc'.items[matching_items[j]].promotional_scheme_applied
                               = sd.name
               freed ==
                   /\ announced("free")
                   /\ Len(doc'.items) = Len(doc.items) + Len(matching_items)
               untouched == doc' = doc /\ msgs' = msgs
           IN  /\ sd.type_of_promo_validation = "Based on Minimum Amount"
                  => IF /\ MatchedSum(doc, matching_items, "base_net_amount")
                              >= OrZero(sd.minimum_amount)
                        /\ OrZero(sd.discount_percentage) > 0
                     THEN discounted ELSE untouched
               /\ sd.type_of_promo_validation = "Based on Minimum Quantity"
                  => IF /\ MatchedSum(doc, matching_items, "qty")
                              >= OrZero(sd.minimum_quantity)
                        /\ OrZero(sd.free_quantity) > 0
                     THEN freed ELSE untouched]_vars

\* C5 witness: a discount was granted on an aggregate equal to the threshold
C5_Witness ==
    /\ pc = "loop"
    /\ Len(store) = 1
    /\ msgs = <<DiscountMsg(scheme_name, 10)>>
    /\ store[1].minimum_amount # <<>>
    /\ MatchedSum(submitted, matching_items, "base_net_amount")
          = store[1].minimum_amount[1]

----------------------------------------------------------------------------
(* Properties of the effect applicator, checked under SpecEffect           *)

\* 1 - P/100
OneMinus(P) == RatSub(RatOf(1), Rat(P, 100))

\* the rate R a row had before any call
SubmittedRate(i) == FltRate(submitted.items[i].rate)

\* exactly n calls were made, all of them apply_discount
OnlyDiscounts(n) ==
    Len(msgs) = n /\ \A k \in 1..n : msgs[k].kind = "discount"

\* C6 as amended: apply_discount with percentage P sets the rate of each
\* matched row from R to R*(1-P/100) and records P and the scheme on the row;
\* a second call with the same P yields R*(1-P/100)^2, which differs from
\* R*(1-P/100) whenever R is not 0 and P is neither 0 nor 100.
C6_DiscountSetsRateAndCompounds ==
    /\ OnlyDiscounts(1)
          => \A i \in Range(matching_items) :
                LET P == msgs[1].value
                IN  /\ doc.items[i].rate = Some(RatMul(SubmittedRate(i), OneMinus(P)))
                    /\ doc.items[i].discount_percentage = Some(P)
                    /\ doc.items[i].promotional_scheme_applied = msgs[1].scheme
    /\ (OnlyDiscounts(2) /\ msgs[1].value = msgs[2].value)
          => \A i \in Range(matching_items) :
                LET P == msgs[1].value
                    once == RatMul(SubmittedRate(i), OneMinus(P))
                    twice == RatMul(once, OneMinus(P))
                IN  /\ doc.items[i].rate = Some(twice)
                    /\ doc.items[i].discount_percentage = Some(P)
                    /\ doc.items[i].promotional_scheme_applied = msgs[2].scheme
                    /\ (SubmittedRate(i) # RatOf(0) /\ P \notin {0, 100})
                          => doc.items[i].rate # Some(once)

\* C6 as stated: the second call with the same P always leaves a rate that is
\* R*(1-P/100)^2 and not R*(1-P/100).
C6_SecondCallNeverIdempotent ==
    (OnlyDiscounts(2) /\ msgs[1].value = msgs[2].value)
        => \A i \in Range(matching_items) :
              LET P == msgs[1].value
                  once == RatMul(SubmittedRate(i), OneMinus(P))
                  twice == RatMul(once, OneMinus(P))
              IN  doc.items[i].rate = Some(twice) /\ doc.items[i].rate # Some(once)

\* C6 witness: 10% twice on a row priced 25 leaves 20.25, not 22.5
C6_Witness ==
    /\ OnlyDiscounts(2)
    /\ msgs[1].value = 10 /\ msgs[2].value = 10
    /\ \E i \in Range(matching_items) :
          /\ SubmittedRate(i) = RatOf(25)
          /\ doc.items[i].rate = Some(Rat(81, 4))
          /\ doc.items[i].discount_percentage = Some(10)

\* the step is one call of apply_discount / of add_free_items
IsDiscountStep == Len(msgs') = Len(msgs) + 1 /\ msgs'[Len(msgs')].kind = "discount"
IsFreeStep == Len(msgs') = Len(msgs) + 1 /\ msgs'[Len(msgs')].kind = "free"

\* the fields of a row other than rate, discount_percentage and the marker
OtherFields ==
    {"item_code", "item_name", "qty", "amount", "base_rate", "base_amount",
     "base_net_amount", "is_free_item"}

HeaderFields ==
    {"doctype", "customer", "customer_group", "territory", "supplier",
     "supplier_group"}

\* C7: apply_discount changes only rate, discount_percentage and the applied
\* scheme marker of the matched rows: quantities and net amounts, every field
\* of every unmatched row, and the number and order of the rows stay as they were.
C7_DiscountFrame ==
    [][IsDiscountStep
        => /\ Len(doc'.items) = Len(doc.items)
           /\ \A f \in HeaderFields : doc'[f] = doc[f]
           /\ \A i \in DOMAIN doc.items :
                 IF i \in Range(matching_items)
                 THEN \A f \in OtherFields : doc'.items[i][f] = doc.items[i][f]
                 ELSE doc'.items[i] = doc.items[i]]_vars

\* C7 witness: of two rows only the second was matched and discounted
C7_Witness ==
    /\ OnlyDiscounts(1)
    /\ msgs[1].value = 10
    /\ matching_items = <<2>>
    /\ Len(doc.items) = 2
    /\ doc.items[1] = submitted.items[1]
    /\ doc.items[2].rate # submitted.items[2].rate
    /\ doc.items[2].qty = submitted.items[2].qty

\* C8: apply_free_goods with n matched rows appends exactly n rows after the
\* existing ones, the i-th carrying the i-th matched row's code and name with
\* qty = free_qty, rate 0, amount 0, the free-item marker and the scheme; every
\* row that existed before keeps its position and all its fields.
C8_FreeGoodsAppendOnePerMatch ==
    [][IsFreeStep
        => LET n == Len(matching_items)
               old == Len(doc.items)
               call == msgs'[Len(msgs')]
           IN  /\ Len(doc'.items) = old + n
               /\ \A i \in 1..old : doc'.items[i] = doc.items[i]
               /\ \A j \in 1..n :
                     LET row == doc'.items[old + j]
                         it == doc.items[matching_items[j]]
                     IN  /\ row.item_code = it.item_code
                         /\ row.item_name = it.item_name
                         /\ row.qty = Some(call.value)
                         /\ row.rate = Some(RatOf(0))
                         /\ row.amount = Some(0)
                         /\ row.is_free_item = 1
                         /\ row.promotional_scheme_applied = call.scheme]_vars

\* C8 witness: two matched rows gave two free rows behind the two originals
C8_Witness ==
    /\ Len(msgs) = 1 /\ msgs[1].kind = "free" /\ msgs[1].value = 2
    /\ Len(matching_items) = 2
    /\ Len(submitted.items) = 2
    /\ Len(doc.items) = 4
    /\ doc.items[3].item_code = submitted.items[1].item_code
    /\ doc.items[4].item_code = submitted.items[2].item_code
    /\ doc.items[3].item_code # doc.items[4].item_code
    /\ doc.items[4].is_free_item = 1

----------------------------------------------------------------------------
(* Properties of scope extraction (SpecScope) and of validate (SpecValidate) *)

ItemGroups == {"GRP-1", "GRP-2", "GRP-3"}

\* C9: for a scheme in Item Group mode declaring group G, the resolved item
\* scope is exactly the catalog items of group G, whatever else the scheme
\* document holds; no item of another group is included.
C9_ItemGroupScopeIsExactlyTheGroup ==
    \A G \in ItemGroups :
        (/\ pc = "resolved"
         /\ form.apply_on = "Item Group"
         /\ form.promotional_scheme_on_item_group = <<KeyRow("item_group", G)>>)
            => /\ outcome.hook = {c \in DOMAIN ItemCatalog : ItemCatalog[c] = G}
               /\ outcome.report = {c \in DOMAIN ItemCatalog : ItemCatalog[c] = G}

Positive(x) == x # <<>> /\ x[1] > 0

\* C10: a scheme passes validate, and is saved, only if the parameters of its
\* rule are strictly positive: minimum_amount and discount_percentage under
\* the amount rule, minimum_quantity and free_quantity under the quantity
\* rule; zero, missing and negative values are rejected.
C10_ValidatedRuleIsPositive ==
    (pc = "closed" /\ outcome = Passed)
        => /\ form.type_of_promo_validation = "Based on Minimum Amount"
              => Positive(form.minimum_amount) /\ Positive(form.discount_percentage)
           /\ form.type_of_promo_validation = "Based on Minimum Quantity"
              => Positive(form.minimum_quantity) /\ Positive(form.free_quantity)

BothDates(sd) == sd.valid_from # <<>> /\ sd.valid_to # <<>>

\* C11: validate throws the date error exactly when both dates are present
\* and valid_from is later than valid_to; equal dates and a missing date pass
\* the date check, so every scheme that passes validate, and every scheme
\* saved, has valid_from <= valid_to whenever both dates are present.
C11_ValidatedDatesAreOrdered ==
    pc = "closed"
        => /\ outcome = ErrDates
                 <=> (BothDates(form) /\ form.valid_from[1] > form.valid_to[1])
           /\ (outcome = Passed /\ BothDates(form))
                 => form.valid_from[1] <= form.valid_to[1]
           /\ \A i \in DOMAIN store :
                 BothDates(store[i]) => store[i].valid_from[1] <= store[i].valid_to[1]

\* C11 witness: a scheme whose two dates are the same day was saved
C11_Witness ==
    /\ pc = "closed"
    /\ outcome = Passed
    /\ form.valid_from = Some(2) /\ form.valid_to = Some(2)
    /\ store = <<form>>

\* the item tables contradict the mode the scheme selects
ScopeConflict(sd) ==
    \/ sd.apply_on = "Item Code" /\ sd.promotional_scheme_on_item_group # <<>>
    \/ sd.apply_on = "Item Group" /\ sd.promotional_scheme_on_item_code # <<>>

\* C12: a scheme that passes validate has no item-group rows in Item Code
\* mode and no item-code rows in Item Group mode; a scheme that breaks this
\* is rejected with an error and is not saved.
C12_ValidatedScopeIsExclusive ==
    pc = "closed"
        => /\ outcome = Passed => ~ScopeConflict(form)
           /\ ScopeConflict(form) => (outcome # Passed /\ store = <<>>)
           /\ \A i \in DOMAIN store : ~ScopeConflict(store[i])

\* C12 witness: an Item Group scheme that also holds item-code rows was
\* refused with the message for that mode and nothing was stored
C12_Witness ==
    /\ pc = "closed"
    /\ outcome = ErrItemGroup
    /\ form.apply_on = "Item Group"
    /\ form.promotional_scheme_on_item_code # <<>>
    /\ store = <<>>

----------------------------------------------------------------------------
(* Properties of one hook invocation over several schemes (Spec)           *)

\* the names the hook iterates over for the submitted invoice
ActiveNames ==
    IF submitted.doctype \in {"Sales Invoice", "Purchase Invoice"}
    THEN get_active_schemes_for_party(store, PartySide(submitted), today)
    ELSE <<>>

Loads(name) == name \notin unloadable

\* C13: a scheme whose document fails to load is skipped and the submission
\* goes on: when the hook returns, the invoice and the notices are exactly
\* what the loop over the list without the failing scheme produces, so every
\* scheme before and after it is evaluated and applied as if it were absent.
C13_FailedLoadIsSkipped ==
    pc = "done"
        => [doc |-> doc, msgs |-> msgs]
              = RunSchemes([doc |-> submitted, msgs |-> <<>>],
                           SelectSeq(ActiveNames, Loads), store)

\* C13 witness: the first of two active schemes failed to load and the
\* second one was still applied to the invoice
C13_Witness ==
    /\ pc = "done"
    /\ Len(ActiveNames) = 2
    /\ unloadable = {ActiveNames[1]}
    /\ Len(msgs) = 1
    /\ msgs[1].scheme = ActiveNames[2]
    /\ doc # submitted

\* C20: the rows a scheme matches are rows of the invoice as submitted: a
\* free-goods row appended by an earlier scheme of the same invocation is
\* never matched by a later scheme, and so is never counted in its aggregate,
\* never discounted and never given free goods of its own.
C20_FreeRowsAreNeverMatched ==
    /\ pc = "matched"
          => \A j \in DOMAIN matching_items :
                /\ matching_items[j] \in DOMAIN submitted.items
                /\ doc.items[matching_items[j]].is_free_item = 0
    /\ \A i \in DOMAIN doc.items :
          doc.items[i].is_free_item = 1
              => /\ doc.items[i].discount_percentage = <<>>
                 /\ doc.items[i].rate = Some(RatOf(0))
                 /\ \E k \in DOMAIN msgs :
                       /\ msgs[k].kind = "free"
                       /\ msgs[k].scheme = doc.items[i].promotional_scheme_applied
    /\ Cardinality({i \in DOMAIN doc.items : doc.items[i].is_free_item = 1})
          <= Len(submitted.items) * Len(msgs)

----------------------------------------------------------------------------
(* Malformed scope rows (SpecScope)                                        *)

ItemCodeKeys == {"item_code", "item"}
ItemGroupKeys == {"item_group", "group"}

\* a row with no non-empty value under any candidate key of its dimension
Malformed(row, keys) ==
    IF row.isstr THEN ~Truthy(row.val)
    ELSE \A k \in keys : ~Truthy(DictGet(row.kv, k))

WellFormedCode(row) == ~Malformed(row, ItemCodeKeys)
WellFormedGroup(row) == ~Malformed(row, ItemGroupKeys)

\* the scheme document without its malformed item rows
WithoutMalformed(sd) ==
    [sd EXCEPT
        !.promotional_scheme_on_item_code = SelectSeq(@, WellFormedCode),
        !.promotional_scheme_on_item_group = SelectSeq(@, WellFormedGroup)]

\* C19: a scope row with no non-empty value under any candidate key of its
\* dimension raises nothing and adds nothing: the resolved set is the one the
\* scheme has without that row, so a scheme whose only rows are malformed
\* resolves to the empty, unrestricted scope.
C19_MalformedRowsContributeNothing ==
    pc = "resolved"
        => /\ outcome.hook = _extract_item_codes_from_scheme(WithoutMalformed(form))
           /\ outcome.report
                 = report_extract_item_codes_from_scheme(WithoutMalformed(form))

----------------------------------------------------------------------------
(* Properties of the report (SpecReport)                                   *)

\* the report has visited a scheme that loaded: totals_map is that scheme's
Visited == pc \in {"rows", "returned"} /\ scheme_name # NoneV /\ Loads(scheme_name)

\* the effective window of the visited scheme: a report date replaces the
\* scheme's date for its bound; a bound may be missing
EffectiveFrom ==
    IF filters.from_date # <<>> THEN filters.from_date ELSE CurrentScheme.valid_from
EffectiveTo ==
    IF filters.to_date # <<>> THEN filters.to_date ELSE CurrentScheme.valid_to

InEffectiveWindow(d) ==
    /\ EffectiveFrom # <<>> => EffectiveFrom[1] <= d
    /\ EffectiveTo # <<>> => d <= EffectiveTo[1]

\* an item row, as <<invoice, row>> positions in the database
ItemRows == UNION {{<<n, j>> : j \in DOMAIN ledger[n].items} : n \in DOMAIN ledger}

PartyOf(inv) == IF inv.doctype = "Sales Invoice" THEN inv.customer ELSE inv.supplier

\* the item rows the totals of the visited scheme are to count
CountedRows ==
    LET sd == CurrentScheme
        header == IF ReportSide(sd) = "Selling" THEN "Sales Invoice"
                  ELSE "Purchase Invoice"
        named == {DeclaredParties(sd)[i][2] : i \in DOMAIN DeclaredParties(sd)}
        codes == report_extract_item_codes_from_scheme(sd)
    IN  {c \in ItemRows :
            /\ ledger[c[1]].doctype = header
            /\ ledger[c[1]].docstatus = 1
            /\ InEffectiveWindow(ledger[c[1]].posting_date)
            /\ named # {} => PartyOf(ledger[c[1]]) \in named
            /\ codes # {} => ledger[c[1]].items[c[2]].item_code \in codes}

CellOf(c) == <<PartyOf(ledger[c[1]]), ledger[c[1]].items[c[2]].item_code>>

RECURSIVE QtyOver(_)
QtyOver(C) ==
    IF C = {} THEN 0
    ELSE LET c == CHOOSE x \in C : TRUE
         IN  OrZero(ledger[c[1]].items[c[2]].qty) + QtyOver(C \ {c})

\* C14: the totals of a scheme count an item row of a submitted invoice
\* exactly when the posting date lies in the effective window: from the
\* report's from_date if given, else the scheme's valid_from, to the report's
\* to_date if given, else the scheme's valid_to; a missing bound leaves that
\* side open and with no bound every submitted invoice is counted.
C14_TotalsCountTheEffectiveWindow ==
    Visited
        => /\ DOMAIN totals_map = {CellOf(c) : c \in CountedRows}
           /\ \A k \in DOMAIN totals_map :
                 totals_map[k].total_qty
                    = QtyOver({c \in CountedRows : CellOf(c) = k})

\* C14 witness: the report's from_date 1 replaced the scheme's valid_from 2,
\* the other side was open, and an invoice posted on day 1 was counted
C14_Witness ==
    /\ Visited
    /\ CurrentScheme.valid_from = Some(2) /\ CurrentScheme.valid_to = <<>>
    /\ filters.from_date = Some(1) /\ filters.to_date = <<>>
    /\ Len(ledger) = 2
    /\ ledger[1].posting_date = 1 /\ ledger[1].docstatus = 1
    /\ ledger[2].posting_date = MaxDate
    /\ <<ledger[1].customer, "ITEM-A">> \in DOMAIN totals_map
    /\ totals_map[<<ledger[1].customer, "ITEM-A">>].total_qty >= 4

\* the stored schemes a built row can come from
SchemesOfRow(r) == {n \in DOMAIN store : SchemeTitle(store[n]) = r.scheme_name}

\* C15: the label of a row is Eligible exactly when the evaluator's rule
\* qualifies the scheme on the row's totals: total amount >= minimum_amount
\* under the amount rule, total quantity >= minimum_quantity under the
\* quantity rule, inclusively, a missing threshold counting as 0.
C15_ReportAgreesWithEvaluator ==
    \A i \in DOMAIN result_rows : \A n \in SchemesOfRow(result_rows[i]) :
        LET r == result_rows[i]
            sd == store[n]
        IN  /\ sd.type_of_promo_validation = "Based on Minimum Amount"
                  => (r.eligibility_status = "Eligible"
                        <=> r.invoice_amount >= OrZero(sd.minimum_amount))
            /\ sd.type_of_promo_validation = "Based on Minimum Quantity"
                  => (r.eligibility_status = "Eligible"
                        <=> r.invoice_qty >= OrZero(sd.minimum_quantity))

\* the rows built for a stored scheme
RowsOf(sd) == {i \in DOMAIN result_rows : result_rows[i].scheme_name = SchemeTitle(sd)}

\* the schemes the finished report has loaded
Reported(sd) == sd.name \in Range(SelectSchemes(store, filters)) /\ Loads(sd.name)

\* C16: every loaded scheme has one row per cell of its parties and items;
\* a scheme that names no party, when the totals hold no party either, still
\* has its rows, with party_name "All".
C16_EverySchemeHasItsCells ==
    pc = "returned"
        => \A n \in DOMAIN store :
              Reported(store[n])
                  => LET sd == store[n]
                         found == FoundParties(SchemeTotals(sd, filters, ledger))
                         parties == IF DeclaredParties(sd) # <<>>
                                    THEN Len(DeclaredParties(sd))
                                    ELSE IF found # {} THEN Cardinality(found)
                                    ELSE 1
                     IN  /\ Cardinality(RowsOf(sd)) = parties * Len(ReportItems(sd))
                         /\ (DeclaredParties(sd) = <<>> /\ found = {})
                               => \E i \in RowsOf(sd) : result_rows[i].party_name = "All"

\* C17: a Selling scheme with no party scope, item scope {ITEM-A} and an
\* amount rule, reported with no filter: the rows are the catalog customers
\* crossed with ITEM-A, one row per customer, customers without invoices
\* included with totals 0, each labelled Eligible exactly when its total
\* amount >= minimum_amount.
C17_ScenarioRowsAreCatalogCrossItem ==
    (/\ pc = "returned"
     /\ filters = NoFilters
     /\ Len(store) = 1
     /\ Loads(store[1].name)
     /\ store[1].select_the_party = "Selling"
     /\ EmptyPartyScope(store[1])
     /\ report_extract_item_codes_from_scheme(store[1]) = {"ITEM-A"}
     /\ store[1].type_of_promo_validation = "Based on Minimum Amount")
        => /\ Len(outcome) = Cardinality(DOMAIN CustomerCatalog)
           /\ {<<outcome[i].party_name, outcome[i].item_or_group>> :
                   i \in DOMAIN outcome}
                 = {<<c, "ITEM-A">> : c \in DOMAIN CustomerCatalog}
           /\ \A i \in DOMAIN outcome :
                 LET r == outcome[i]
                     k == <<r.party_name, "ITEM-A">>
                 IN  /\ r.invoice_qty
                           = QtyOver({c \in CountedRows : CellOf(c) = k})
                     /\ r.eligibility_status = "Eligible"
                           <=> r.invoice_amount >= OrZero(store[1].minimum_amount)

\* a row passes one filter, or the filter is not supplied
PassesText(wanted, v) == Truthy(wanted) => v = wanted
PassesMin(bound, v) == bound # <<>> => v >= bound[1]
PassesMax(bound, v) == bound # <<>> => v <= bound[1]

\* a row satisfies every supplied filter
Passes(r) ==
    /\ PassesText(filters.scheme_name, r.scheme_name)
    /\ PassesText(filters.party_type, r.party_type)
    /\ PassesText(filters.party_name, r.party_name)
    /\ PassesText(filters.apply_on, r.apply_on)
    /\ Truthy(filters.item_or_group)
          => Find(Lower(Chars(r.item_or_group)),
                  Lower(Strip(Chars(filters.item_or_group))))
    /\ PassesMin(filters.min_invoice_amount, r.invoice_amount)
    /\ PassesMax(filters.max_invoice_amount, r.invoice_amount)
    /\ PassesMin(filters.min_invoice_qty, r.invoice_qty)
    /\ PassesMax(filters.max_invoice_qty, r.invoice_qty)
    /\ PassesMin(filters.discount_min, r.discount_percentage)
    /\ PassesMax(filters.discount_max, r.discount_percentage)
    /\ (filters.from_date # <<>> /\ r.valid_to # <<>>)
          => r.valid_to[1] >= filters.from_date[1]
    /\ (filters.to_date # <<>> /\ r.valid_from # <<>>)
          => r.valid_from[1] <= filters.to_date[1]
    /\ filters.show_only_eligible = 1 => r.eligibility_status = "Eligible"

\* C18: the report returns exactly the built rows that satisfy every supplied
\* filter at once, in their built order: exact match on scheme name, party
\* type, party name and apply-on, case-insensitive substring on the item
\* column, inclusive ranges on amount, quantity and discount, overlap of the
\* scheme's dates with the requested window (a missing date is open), and
\* Eligible rows only under the toggle; an unsupplied filter removes nothing.
C18_ReturnedRowsPassEveryFilter ==
    pc = "returned" => outcome = SelectSeq(result_rows, Passes)

\* C18 witness: with a from_date and a minimum amount supplied some rows
\* were returned and some were dropped
C18_Witness ==
    /\ pc = "returned"
    /\ filters.from_date # <<>>
    /\ filters.min_invoice_amount = Some(100)
    /\ outcome # <<>>
    /\ Len(outcome) < Len(result_rows)
    /\ \E i \in DOMAIN outcome : outcome[i].valid_to = <<>>
    /\ \E i \in DOMAIN result_rows :
          result_rows[i].invoice_amount < 100

\* a Sales Invoice of a catalog customer, with the customer's group and territory
CatalogSalesInvoice(c) ==
    Invoice("Sales Invoice", c, CustomerCatalog[c].customer_group,
            CustomerCatalog[c].territory, NoneV, NoneV, <<>>)

\* a Purchase Invoice of a catalog supplier, with the supplier's group
CatalogPurchaseInvoice(c) ==
    Invoice("Purchase Invoice", NoneV, NoneV, NoneV, c, SupplierCatalog[c], <<>>)

\* the parties the report lists for a stored scheme
EnumeratedParties(sd) == {result_rows[i].party_name : i \in RowsOf(sd)}

\* the submission hook's party match of an invoice against a stored scheme
HookMatches(d, sd) == _invoice_party_matches(d, _extract_party_values_from_scheme(sd))

\* C21: for the visited scheme, when it is a Selling scheme that names
\* customers, customer groups or territories, the report lists a catalog
\* customer exactly when a Sales Invoice of that customer (with the
\* customer's catalog group and territory) passes the hook's party match;
\* likewise for suppliers and supplier groups of a Buying scheme.
C21_ReportPartiesAreHookParties ==
    Visited
        => LET sd == CurrentScheme
           IN  /\ (/\ sd.select_the_party = "Selling"
                   /\ (sd.customer # <<>> \/ sd.customer_group # <<>>
                          \/ sd.territory # <<>>))
                     => \A c \in DOMAIN CustomerCatalog :
                           c \in EnumeratedParties(sd)
                              <=> HookMatches(CatalogSalesInvoice(c), sd)
               /\ (/\ sd.select_the_party = "Buying"
                   /\ (sd.supplier # <<>> \/ sd.supplier_group # <<>>))
                     => \A c \in DOMAIN SupplierCatalog :
                           c \in EnumeratedParties(sd)
                              <=> HookMatches(CatalogPurchaseInvoice(c), sd)

\* the grouped totals of a party, summed over every item
RECURSIVE PartyTotalOver(_, _, _)
PartyTotalOver(K, party, field) ==
    IF K = {} THEN 0
    ELSE LET k == CHOOSE x \in K : TRUE
         IN  (IF k[1] = party THEN totals_map[k][field] ELSE 0)
                + PartyTotalOver(K \ {k}, party, field)

\* C22: for the visited scheme, when it declares no item, every row carries
\* the sums over all items of the totals the query returned for the row's
\* party, and a party with submitted invoices in the window does not show 0.
C22_UnrestrictedRowsCarryPartyTotals ==
    (Visited /\ NoItemRows(CurrentScheme))
        => \A i \in RowsOf(CurrentScheme) :
              LET r == result_rows[i]
              IN  /\ r.invoice_amount
                        = PartyTotalOver(DOMAIN totals_map, r.party_name, "total_amount")
                  /\ r.invoice_qty
                        = PartyTotalOver(DOMAIN totals_map, r.party_name, "total_qty")

\* while add_free_items_to_invoice runs: it has made no more iterations than
\* rows were matched, every matched row precedes the rows appended so far,
\* and those are the free rows of the first matched rows, in order
FreeLoopVisitsMatchedRowsOnly ==
    pc = "free"
        => LET n == Len(doc.items) - cursor
               free_qty == OrZero(CurrentScheme.free_quantity)
           IN  /\ cursor <= Len(matching_items)
               /\ \A j \in DOMAIN matching_items : matching_items[j] <= n
               /\ \A j \in 1..cursor :
                     doc.items[n + j]
                        = FreeRow(doc.items[matching_items[j]], free_qty, scheme_name)

\* the notices name each scheme at most once
EachSchemeAppliedOnce ==
    \A i, j \in DOMAIN msgs : msgs[i].scheme = msgs[j].scheme => i = j

\* a pass of the hook's loop takes the scheme at the head of the list off it
SchemeLeavesTheList ==
    (pc \in {"matched", "free"} /\ pc' = "loop")
        => queue' = Tail(queue) /\ scheme_name = Head(queue)

\* C23: the hook returns on every invoice and every list of active schemes;
\* the loop of a free-goods scheme visits the rows matched before it began
\* and none of the rows it appends, so it appends one row per matched row;
\* and every scheme is taken off the list after one evaluation.
C23_HookTerminates ==
    /\ <>(pc = "done")
    /\ [](FreeLoopVisitsMatchedRowsOnly /\ EachSchemeAppliedOnce)
    /\ [][SchemeLeavesTheList]_vars

\* C23 witness: the hook returned after two free-goods schemes ran, the
\* second of which matched rows the first had appended
C23_Witness ==
    /\ pc = "done"
    /\ Len(msgs) = 2
    /\ \A i \in DOMAIN msgs : msgs[i].kind = "free"
    /\ Len(doc.items) > 2 * Len(submitted.items)
    /\ Len(submitted.items) > 0


=============================================================================
